---- MODULE Spec2Model ----
(***************************************************************************)
(* A model of sylt-lang: the single-pass compiler (src/src/compiler.rs),   *)
(* the value and type model with its operators (src/src/lib.rs) and the    *)
(* dual-mode virtual machine (src/src/vm.rs).                              *)
(*                                                                         *)
(* Conventions.  Rust vectors are 0-indexed, TLA+ sequences 1-indexed:     *)
(* At(s, i) reads element i of the Rust vector s.  A Rust panic (a failed  *)
(* unwrap, unreachable!(), an out-of-range vector index, a division by     *)
(* zero) is the result "Panic".  A finite float is held by its number, and  *)
(* the floats of the model are whole (TLC has no floats); list and union   *)
(* values, which neither the compiler nor the VM of these sources builds,  *)
(* are arguments of the library's functions only.  An Int stays far from   *)
(* the i64 limits in every program of the model.                           *)
(***************************************************************************)
EXTENDS Integers, Sequences, FiniteSets, TLC

\* What the caller handed in and how far its call has come: the first two
\* variables of the state, which is described where the state machines are.
VARIABLES input, phase

At(s, i) == s[i + 1]
Last(s) == s[Len(s)]
Front(s) == SubSeq(s, 1, Len(s) - 1)
\* Vec::truncate / the first n elements: all of s when n is not below its length.
Take(s, n) == SubSeq(s, 1, IF n < Len(s) THEN n ELSE Len(s))
Drop(s, n) == SubSeq(s, n + 1, Len(s))
SetAt(s, i, x) == [s EXCEPT ![i + 1] = x]
Range(s) == {s[i] : i \in DOMAIN s}

(***************************************************************************)
(* enum Type and enum Value.  Every value is a record [k, v]: k the        *)
(* variant, v its payload.                                                 *)
(***************************************************************************)
TVoid == [k |-> "Void", v |-> 0]
TUnknown == [k |-> "Unknown", v |-> 0]
TInt == [k |-> "Int", v |-> 0]
TBool == [k |-> "Bool", v |-> 0]
TString == [k |-> "String", v |-> 0]
TFloat == [k |-> "Float", v |-> 0]
TTuple(ts) == [k |-> "Tuple", v |-> ts]
TList(t) == [k |-> "List", v |-> t]
\* Type::Union(HashSet<Type>)
TUnion(ts) == [k |-> "Union", v |-> ts]
TFunction(args, ret) == [k |-> "Function", v |-> [a |-> args, r |-> ret]]
TBlob(b) == [k |-> "Blob", v |-> b]
TInstance(b) == [k |-> "Instance", v |-> b]

Nil == [k |-> "Nil", v |-> 0]
Unknown == [k |-> "Unknown", v |-> 0]
VBool(b) == [k |-> "Bool", v |-> b]
VInt(i) == [k |-> "Int", v |-> i]
VString(s) == [k |-> "String", v |-> s]
\* A finite float is held by its number; the floats of the model are whole.
VFloat(x) == [k |-> "Float", v |-> x]
VTuple(vs) == [k |-> "Tuple", v |-> vs]
\* Value::List(Rc<RefCell<Vec<Value>>>), by its elements.
VList(vs) == [k |-> "List", v |-> vs]
\* VFunction(up-value cells, block): block is an index into prog.blocks, or 0
\* for a block made by Block::stubbed_block, of which only the type matters.
VFunction(ups, block, ty) == [k |-> "Function", v |-> [ups |-> ups, block |-> block, ty |-> ty]]
VBlob(b) == [k |-> "Blob", v |-> b]
\* VBlobInstance(blob, field vector): ref is the index of the shared field vector
\* in vm.heap, or 0 for the private empty vector Value::from(&Type) makes.
VBlobInstance(b, ref) == [k |-> "Instance", v |-> [blob |-> b, ref |-> ref]]
VExternFunction(i) == [k |-> "ExternFunction", v |-> i]
VTy(t) == [k |-> "Ty", v |-> t]
\* The outcome of an operator that panics (i64 division by zero).
PanicValue == [k |-> "Panic", v |-> 0]

is_nil(x) == x.k = "Nil"

\* impl PartialEq for Type.  Unknown has no arm of its own, and two tuple types
\* are compared over the zip of their elements.
RECURSIVE TypeEq(_, _)
TypeEq(a, b) ==
    CASE a.k = "Void" /\ b.k = "Void" -> TRUE
      [] a.k = "Instance" /\ b.k = "Instance" -> a.v = b.v
      [] a.k = "Blob" /\ b.k = "Blob" -> a.v = b.v
      [] a.k = "Int" /\ b.k = "Int" -> TRUE
      [] a.k = "Float" /\ b.k = "Float" -> TRUE
      [] a.k = "Bool" /\ b.k = "Bool" -> TRUE
      [] a.k = "String" /\ b.k = "String" -> TRUE
      [] a.k = "Tuple" /\ b.k = "Tuple" ->
            \A i \in 1..(IF Len(a.v) < Len(b.v) THEN Len(a.v) ELSE Len(b.v)) :
                TypeEq(a.v[i], b.v[i])
      [] a.k = "Union" -> \E x \in a.v : TypeEq(x, b)
      [] a.k # "Union" /\ b.k = "Union" -> \E x \in b.v : TypeEq(x, a)
      [] a.k = "List" /\ b.k = "List" -> TypeEq(a.v, b.v)
      [] a.k = "Function" /\ b.k = "Function" ->
            /\ Len(a.v.a) = Len(b.v.a)
            /\ \A i \in 1..Len(a.v.a) : TypeEq(a.v.a[i], b.v.a[i])
            /\ TypeEq(a.v.r, b.v.r)
      [] OTHER -> FALSE

\* Vec<Type> == Vec<Type>: same length and equal elements.
TypesEq(as, bs) ==
    Len(as) = Len(bs) /\ \A i \in 1..Len(as) : TypeEq(as[i], bs[i])

\* HashSet<Type>::contains: x is compared (PartialEq) with the elements of its
\* own hash only, which in a set that holds x is x's own place.
contains(ts, x) == \E y \in ts : y = x /\ TypeEq(x, y)

\* Type::fits: whether a `b` is valid where an `a` is.
RECURSIVE fits(_, _)
fits(a, b) ==
    CASE b.k = "Unknown" -> TRUE
      [] a.k = "List" /\ b.k = "List" -> fits(a.v, b.v)
      [] a.k = "Union" /\ b.k = "Union" -> \A x \in a.v : contains(b.v, x)
      [] a.k # "Union" /\ b.k = "Union" -> FALSE
      [] OTHER -> TypeEq(a, b)

\* impl From<&Value> for Type.
RECURSIVE TypeOf(_)
TypeOf(x) ==
    CASE x.k = "Instance" -> TInstance(x.v.blob)
      [] x.k = "Blob" -> TBlob(x.v)
      [] x.k = "Tuple" -> TTuple([i \in 1..Len(x.v) |-> TypeOf(x.v[i])])
      [] x.k = "Int" -> TInt
      [] x.k = "Float" -> TFloat
      [] x.k = "Bool" -> TBool
      [] x.k = "String" -> TString
      [] x.k = "Function" -> x.v.ty
      [] x.k = "Unknown" -> TUnknown
      [] OTHER -> TVoid

\* impl From<&Type> for Value: the exemplar of a type.
RECURSIVE ValueOf(_)
ValueOf(t) ==
    CASE t.k = "Void" -> Nil
      [] t.k = "Blob" -> VBlob(t.v)
      [] t.k = "Instance" -> VBlobInstance(t.v, 0)
      [] t.k = "Tuple" -> VTuple([i \in 1..Len(t.v) |-> ValueOf(t.v[i])])
      [] t.k = "Unknown" -> Unknown
      [] t.k = "Int" -> VInt(1)
      [] t.k = "Float" -> VFloat(1)
      [] t.k = "Bool" -> VBool(TRUE)
      [] t.k = "String" -> VString(<<>>)
      [] t.k = "Function" -> VFunction(<<>>, 0, t)

\* Value::identity.
identity(x) ==
    CASE x.k = "Int" -> VInt(1)
      [] x.k = "Bool" -> VBool(TRUE)
      [] OTHER -> x

(***************************************************************************)
(* mod op: the operators on values.  Nil is "does not apply".              *)
(***************************************************************************)
RECURSIVE SeqLess(_, _)
\* str < str: lexicographic on the bytes.
SeqLess(a, b) ==
    IF Len(b) = 0 THEN FALSE
    ELSE IF Len(a) = 0 THEN TRUE
    ELSE IF a[1] # b[1] THEN a[1] < b[1]
    ELSE SeqLess(Tail(a), Tail(b))

Abs(i) == IF i < 0 THEN -i ELSE i
\* i64 division truncates toward zero.
TruncDiv(a, b) ==
    IF (a < 0) # (b < 0) THEN -(Abs(a) \div Abs(b)) ELSE Abs(a) \div Abs(b)

\* Collects the element results of tuple_bin_op / tuple_un_op.
TupleOf(rs) ==
    IF \E i \in 1..Len(rs) : rs[i].k = "Panic" THEN PanicValue ELSE VTuple(rs)

RECURSIVE neg(_)
neg(a) ==
    CASE a.k = "Int" -> VInt(-a.v)
      [] a.k = "Tuple" -> TupleOf([i \in 1..Len(a.v) |-> neg(a.v[i])])
      [] a.k = "Unknown" -> Unknown
      [] OTHER -> Nil

RECURSIVE not(_)
not(a) ==
    CASE a.k = "Bool" -> VBool(~a.v)
      [] a.k = "Tuple" -> TupleOf([i \in 1..Len(a.v) |-> not(a.v[i])])
      [] a.k = "Unknown" -> ValueOf(TBool)
      [] OTHER -> Nil

RECURSIVE add(_, _)
add(a, b) ==
    CASE a.k = "Int" /\ b.k = "Int" -> VInt(a.v + b.v)
      [] a.k = "String" /\ b.k = "String" -> VString(a.v \o b.v)
      [] a.k = "Tuple" /\ b.k = "Tuple" /\ Len(a.v) = Len(b.v) ->
            TupleOf([i \in 1..Len(a.v) |-> add(a.v[i], b.v[i])])
      [] a.k = "Unknown" /\ b.k # "Unknown" -> add(b, b)
      [] b.k = "Unknown" /\ a.k # "Unknown" -> add(a, a)
      [] a.k = "Unknown" /\ b.k = "Unknown" -> Unknown
      [] OTHER -> Nil

sub(a, b) == LET nb == neg(b) IN IF nb.k = "Panic" THEN nb ELSE add(a, nb)

RECURSIVE mul(_, _)
mul(a, b) ==
    CASE a.k = "Int" /\ b.k = "Int" -> VInt(a.v * b.v)
      [] a.k = "Tuple" /\ b.k = "Tuple" /\ Len(a.v) = Len(b.v) ->
            TupleOf([i \in 1..Len(a.v) |-> mul(a.v[i], b.v[i])])
      [] a.k = "Unknown" /\ b.k # "Unknown" -> mul(b, b)
      [] b.k = "Unknown" /\ a.k # "Unknown" -> mul(a, a)
      [] a.k = "Unknown" /\ b.k = "Unknown" -> Unknown
      [] OTHER -> Nil

RECURSIVE div(_, _)
\* Int / Int panics on a zero divisor.
div(a, b) ==
    CASE a.k = "Int" /\ b.k = "Int" ->
            IF b.v = 0 THEN PanicValue ELSE VInt(TruncDiv(a.v, b.v))
      [] a.k = "Tuple" /\ b.k = "Tuple" /\ Len(a.v) = Len(b.v) ->
            TupleOf([i \in 1..Len(a.v) |-> div(a.v[i], b.v[i])])
      [] a.k = "Unknown" /\ b.k # "Unknown" -> div(b, b)
      [] b.k = "Unknown" /\ a.k # "Unknown" -> div(a, a)
      [] a.k = "Unknown" /\ b.k = "Unknown" -> Unknown
      [] OTHER -> Nil

RECURSIVE eq_no_list(_, _)
\* op::eq without its arm for two lists.
eq_no_list(a, b) ==
    CASE a.k = "Float" /\ b.k = "Float" -> VBool(a.v = b.v)
      [] a.k = "Int" /\ b.k = "Int" -> VBool(a.v = b.v)
      [] a.k = "String" /\ b.k = "String" -> VBool(a.v = b.v)
      [] a.k = "Bool" /\ b.k = "Bool" -> VBool(a.v = b.v)
      [] a.k = "Tuple" /\ b.k = "Tuple" /\ Len(a.v) = Len(b.v) ->
            LET rs == [i \in 1..Len(a.v) |-> eq_no_list(a.v[i], b.v[i])]
                bad == {i \in 1..Len(a.v) : ~(rs[i].k = "Bool" /\ rs[i].v)}
            IN  IF bad = {} THEN VBool(TRUE)
                ELSE LET r == rs[CHOOSE i \in bad : \A j \in bad : i <= j]
                     IN  IF r.k \in {"Bool", "Nil"} THEN r ELSE PanicValue
      [] a.k = "Unknown" /\ b.k # "Unknown" -> eq_no_list(b, b)
      [] b.k = "Unknown" /\ a.k # "Unknown" -> eq_no_list(a, a)
      [] a.k = "Unknown" /\ b.k = "Unknown" -> Unknown
      [] a.k = "Nil" /\ b.k = "Nil" -> VBool(TRUE)
      [] OTHER -> Nil

RECURSIVE eq(_, _)
\* On tuples: the first element result that is not Bool(true) decides; an element
\* result other than Bool or Nil reaches unreachable!().
eq(a, b) ==
    CASE a.k = "Float" /\ b.k = "Float" -> VBool(a.v = b.v)
      [] a.k = "Int" /\ b.k = "Int" -> VBool(a.v = b.v)
      [] a.k = "String" /\ b.k = "String" -> VBool(a.v = b.v)
      [] a.k = "Bool" /\ b.k = "Bool" -> VBool(a.v = b.v)
      [] a.k = "Tuple" /\ b.k = "Tuple" /\ Len(a.v) = Len(b.v) ->
            LET rs == [i \in 1..Len(a.v) |-> eq(a.v[i], b.v[i])]
                bad == {i \in 1..Len(a.v) : ~(rs[i].k = "Bool" /\ rs[i].v)}
            IN  IF bad = {} THEN VBool(TRUE)
                ELSE LET r == rs[CHOOSE i \in bad : \A j \in bad : i <= j]
                     IN  IF r.k \in {"Bool", "Nil"} THEN r ELSE PanicValue
      [] a.k = "Unknown" /\ b.k # "Unknown" -> eq(b, b)
      [] b.k = "Unknown" /\ a.k # "Unknown" -> eq(a, a)
      [] a.k = "Unknown" /\ b.k = "Unknown" -> Unknown
      [] a.k = "Nil" /\ b.k = "Nil" -> VBool(TRUE)
      [] a.k = "List" /\ b.k = "List" ->
            IF Len(a.v) # Len(b.v) THEN VBool(FALSE)
            ELSE LET rs == [i \in 1..Len(a.v) |-> eq(a.v[i], b.v[i])]
                     bad == {i \in 1..Len(a.v) : ~(rs[i].k = "Bool" /\ rs[i].v)}
                 IN  IF bad = {} THEN VBool(TRUE)
                     ELSE LET r == rs[CHOOSE i \in bad : \A j \in bad : i <= j]
                          IN  IF r.k \in {"Bool", "Nil"} THEN r ELSE PanicValue
      [] OTHER -> Nil

RECURSIVE less(_, _)
\* On tuples: the first element result that is not Bool(true) is the result.
less(a, b) ==
    CASE a.k = "Float" /\ b.k = "Float" -> VBool(a.v < b.v)
      [] a.k = "Int" /\ b.k = "Int" -> VBool(a.v < b.v)
      [] a.k = "String" /\ b.k = "String" -> VBool(SeqLess(a.v, b.v))
      [] a.k = "Bool" /\ b.k = "Bool" -> VBool(~a.v /\ b.v)
      [] a.k = "Tuple" /\ b.k = "Tuple" /\ Len(a.v) = Len(b.v) ->
            LET rs == [i \in 1..Len(a.v) |-> less(a.v[i], b.v[i])]
                bad == {i \in 1..Len(a.v) : ~(rs[i].k = "Bool" /\ rs[i].v)}
            IN  IF bad = {} THEN VBool(TRUE)
                ELSE rs[CHOOSE i \in bad : \A j \in bad : i <= j]
      [] a.k = "Unknown" /\ b.k # "Unknown" -> less(b, b)
      [] b.k = "Unknown" /\ a.k # "Unknown" -> less(a, a)
      [] a.k = "Unknown" /\ b.k = "Unknown" -> Unknown
      [] OTHER -> Nil

greater(a, b) == less(b, a)

RECURSIVE and(_, _)
and(a, b) ==
    CASE a.k = "Bool" /\ b.k = "Bool" -> VBool(a.v /\ b.v)
      [] a.k = "Tuple" /\ b.k = "Tuple" /\ Len(a.v) = Len(b.v) ->
            TupleOf([i \in 1..Len(a.v) |-> and(a.v[i], b.v[i])])
      [] a.k = "Unknown" /\ b.k # "Unknown" -> and(b, b)
      [] b.k = "Unknown" /\ a.k # "Unknown" -> and(a, a)
      [] a.k = "Unknown" /\ b.k = "Unknown" -> Unknown
      [] OTHER -> Nil

RECURSIVE or(_, _)
or(a, b) ==
    CASE a.k = "Bool" /\ b.k = "Bool" -> VBool(a.v \/ b.v)
      [] a.k = "Tuple" /\ b.k = "Tuple" /\ Len(a.v) = Len(b.v) ->
            TupleOf([i \in 1..Len(a.v) |-> or(a.v[i], b.v[i])])
      [] a.k = "Unknown" /\ b.k # "Unknown" -> or(b, b)
      [] b.k = "Unknown" /\ a.k # "Unknown" -> or(a, a)
      [] a.k = "Unknown" /\ b.k = "Unknown" -> Unknown
      [] OTHER -> Nil

(***************************************************************************)
(* Bytecode.  Block.ops is a byte vector: an op is one byte, an operand is *)
(* eight bytes, big-endian (VM::op, VM::usize).  The numbering of the op   *)
(* bytes is not fixed by the sources, so an op byte is kept by name and an *)
(* operand byte by value; decoding an operand byte as an op, or an op byte *)
(* as part of an operand, is the result "Misdecode".                       *)
(***************************************************************************)
OpByte(name) == [t |-> "op", v |-> name]
ArgByte(n) == [t |-> "byte", v |-> n]

\* usize::to_be_bytes, for n < 2^24.
be_bytes(n) ==
    << ArgByte(0), ArgByte(0), ArgByte(0), ArgByte(0), ArgByte(0),
       ArgByte((n \div 65536) % 256), ArgByte((n \div 256) % 256), ArgByte(n % 256) >>

\* A usize of 2^24 or more stands for every larger one: no stack, block or
\* constant table of the model is that long.
HugeUsize == 16777216

\* usize::from_be_bytes of eight operand bytes.
from_be_bytes(bs) ==
    IF \E i \in 1..5 : bs[i].v # 0 THEN HugeUsize
    ELSE bs[6].v * 65536 + bs[7].v * 256 + bs[8].v

Res(vm, r) == [vm |-> vm, res |-> r]

frame(vm) == Last(vm.frames)
block_of(vm, prog) == prog.blocks[frame(vm).block]
set_ip(vm, ip) == [vm EXCEPT !.frames[Len(vm.frames)].ip = ip]
push(vm, x) == [vm EXCEPT !.stack = Append(@, x)]
\* The stack without its n topmost values (n <= Len).
popped(vm, n) == [vm EXCEPT !.stack = Take(@, Len(@) - n)]
top(vm) == Last(vm.stack)

\* VM::op: reads the byte at ip as an op and advances ip by one.
op(vm, prog) ==
    LET ip == frame(vm).ip
        ops == block_of(vm, prog).ops
    IN  IF ip >= Len(ops) THEN [vm |-> vm, op |-> "Panic"]
        ELSE IF At(ops, ip).t # "op" THEN [vm |-> set_ip(vm, ip + 1), op |-> "Misdecode"]
        ELSE [vm |-> set_ip(vm, ip + 1), op |-> At(ops, ip).v]

\* VM::usize: reads the eight bytes at ip as an operand and advances ip by eight.
usize(vm, prog) ==
    LET ip == frame(vm).ip
        ops == block_of(vm, prog).ops
        bs == SubSeq(ops, ip + 1, ip + 8)
    IN  IF ip + 8 > Len(ops) THEN [vm |-> vm, n |-> 0, err |-> "Panic"]
        ELSE IF \E i \in 1..8 : bs[i].t # "byte"
            THEN [vm |-> vm, n |-> 0, err |-> "Misdecode"]
        ELSE [vm |-> set_ip(vm, ip + 8), n |-> from_be_bytes(bs), err |-> ""]

(***************************************************************************)
(* struct UpValue: cells[c] = [slot, value], open while slot # 0.          *)
(***************************************************************************)
UpValue_new(slot) == [slot |-> slot, value |-> Nil]
is_closed(up) == up.slot = 0
close(up, value) == [slot |-> 0, value |-> value]

\* VM::drop_upvalue without `entry.remove()`: the closed cell stays in the table.
drop_upvalue_keep(vm, slot, value) ==
    IF slot \in DOMAIN vm.upvalues
    THEN Res([vm EXCEPT !.cells[vm.upvalues[slot]] = close(@, value)], "Continue")
    ELSE Res(vm, "Panic")

\* VM::drop_upvalue: closes the cell the table holds for the slot and removes
\* the entry; no entry is unreachable!().
drop_upvalue(vm, slot, value) ==
    IF slot \in DOMAIN vm.upvalues
    THEN Res([vm EXCEPT
                !.cells[vm.upvalues[slot]] = close(@, value),
                !.upvalues = [s \in (DOMAIN vm.upvalues) \ {slot} |-> vm.upvalues[s]]],
             "Continue")
    ELSE Res(vm, "Panic")

\* find_upvalue with `insert` for `or_insert`: a new cell at every call.
find_upvalue_insert(vm, slot) ==
    [vm |-> [vm EXCEPT !.cells = Append(@, UpValue_new(slot)),
                       !.upvalues = (slot :> (Len(vm.cells) + 1)) @@ @],
     cell |-> Len(vm.cells) + 1]

\* VM::find_upvalue: the cell the table holds for the slot, a new open one if none.
find_upvalue(vm, slot) ==
    IF slot \in DOMAIN vm.upvalues
    THEN [vm |-> vm, cell |-> vm.upvalues[slot]]
    ELSE [vm |-> [vm EXCEPT !.cells = Append(@, UpValue_new(slot)),
                            !.upvalues = (slot :> (Len(vm.cells) + 1)) @@ @],
          cell |-> Len(vm.cells) + 1]

\* UpValue::get reading the stack whether the cell is closed or not.
UpValue_get_stack(up, stack) ==
    IF up.slot < Len(stack) THEN At(stack, up.slot) ELSE PanicValue

\* UpValue::get
UpValue_get(up, stack) ==
    IF is_closed(up) THEN up.value
    ELSE IF up.slot < Len(stack) THEN At(stack, up.slot) ELSE PanicValue

\* UpValue::set on cell c
UpValue_set(vm, c, value) ==
    LET up == vm.cells[c]
    IN  IF is_closed(up) THEN Res([vm EXCEPT !.cells[c].value = value], "Continue")
        ELSE IF up.slot < Len(vm.stack)
            THEN Res([vm EXCEPT !.stack = SetAt(@, up.slot, value)], "Continue")
        ELSE Res(vm, "Panic")

RECURSIVE close_range(_, _, _)
\* The loops of JmpNPop and Return: closes, in slot order, every open up-value
\* whose slot is in lo..hi-1 with the value its slot holds.
close_range(vm, lo, hi) ==
    IF lo >= hi THEN vm
    ELSE IF lo \in DOMAIN vm.upvalues
        THEN close_range(drop_upvalue(vm, lo, At(vm.stack, lo)).vm, lo + 1, hi)
    ELSE close_range(vm, lo + 1, hi)

(***************************************************************************)
(* VM::eval_op, one operator per arm.  Each takes the VM after VM::op has  *)
(* advanced ip past the op byte and yields Res(vm, result): "Continue",    *)
(* "Yield", "Done", the ErrorKind of an Err, "Panic" or "Misdecode".       *)
(***************************************************************************)
\* one_op!
one_op(vm, r) ==
    IF r.k = "Panic" THEN Res(vm, "Panic")
    ELSE IF is_nil(r) THEN Res(push(popped(vm, 1), r), "RuntimeTypeError")
    ELSE Res(push(popped(vm, 1), r), "Continue")

\* two_op!
two_op(vm, r) ==
    IF r.k = "Panic" THEN Res(vm, "Panic")
    ELSE IF is_nil(r) THEN Res(push(popped(vm, 2), r), "RuntimeTypeError")
    ELSE Res(push(popped(vm, 2), r), "Continue")

unary_fn(name, a) == IF name = "Neg" THEN neg(a) ELSE not(a)

binary_fn(name, a, b) ==
    CASE name = "Add" -> add(a, b)
      [] name = "Sub" -> sub(a, b)
      [] name = "Mul" -> mul(a, b)
      [] name = "Div" -> div(a, b)
      [] name = "Equal" -> eq(a, b)
      [] name = "Less" -> less(a, b)
      [] name = "Greater" -> greater(a, b)
      [] name = "And" -> and(a, b)
      [] name = "Or" -> or(a, b)

eval_unary(vm, name) ==
    IF Len(vm.stack) < 1 THEN Res(vm, "Panic")
    ELSE one_op(vm, unary_fn(name, top(vm)))

eval_binary(vm, name) ==
    IF Len(vm.stack) < 2 THEN Res(vm, "Panic")
    ELSE two_op(vm, binary_fn(name, vm.stack[Len(vm.stack) - 1], top(vm)))

eval_Pop(vm) ==
    IF Len(vm.stack) < 1 THEN Res(vm, "Panic") ELSE Res(popped(vm, 1), "Continue")

eval_Tuple(vm, prog) ==
    LET u == usize(vm, prog)
    IN  IF u.err # "" THEN Res(vm, u.err)
        ELSE IF u.n > Len(u.vm.stack) THEN Res(u.vm, "Panic")
        ELSE Res(push(popped(u.vm, u.n),
                      VTuple(Drop(u.vm.stack, Len(u.vm.stack) - u.n))), "Continue")

\* Op::PopUpvalue as Op::Pop: the cell of the top slot is left as it is.
eval_PopUpvalue_pop(vm) ==
    IF Len(vm.stack) < 1 THEN Res(vm, "Panic") ELSE Res(popped(vm, 1), "Continue")

eval_PopUpvalue(vm) ==
    IF Len(vm.stack) < 1 THEN Res(vm, "Panic")
    ELSE drop_upvalue(popped(vm, 1), Len(vm.stack) - 1, top(vm))

eval_Copy(vm) ==
    IF Len(vm.stack) < 1 THEN Res(vm, "Panic") ELSE Res(push(vm, top(vm)), "Continue")

\* Op::Yield: ip, which VM::op has already advanced past the Yield byte, is
\* advanced by one more.
eval_Yield(vm) == Res(set_ip(vm, frame(vm).ip + 1), "Yield")

RECURSIVE link_upvalues(_, _, _, _)
\* The loop of Op::Constant over the block's up-value descriptors.
link_upvalues(vm, descs, i, ups) ==
    IF i > Len(descs) THEN [vm |-> vm, ups |-> ups, err |-> ""]
    ELSE LET d == descs[i]
             offset == frame(vm).stack_offset
         IN  IF d.is_up
             THEN IF offset < Len(vm.stack) /\ At(vm.stack, offset).k = "Function"
                     /\ d.slot < Len(At(vm.stack, offset).v.ups)
                  THEN link_upvalues(vm, descs, i + 1,
                                     Append(ups, At(At(vm.stack, offset).v.ups, d.slot)))
                  ELSE [vm |-> vm, ups |-> ups, err |-> "Panic"]
             ELSE LET r == find_upvalue(vm, offset + d.slot)
                  IN  link_upvalues(r.vm, descs, i + 1, Append(ups, r.cell))

eval_Constant(vm, prog) ==
    LET u == usize(vm, prog)
    IN  IF u.err # "" THEN Res(vm, u.err)
        ELSE IF u.n >= Len(prog.constants) THEN Res(u.vm, "Panic")
        ELSE LET constant == At(prog.constants, u.n)
             IN  IF constant.k = "Function"
                 THEN LET l == link_upvalues(u.vm, prog.blocks[constant.v.block].upvalues,
                                             1, <<>>)
                      IN  IF l.err # "" THEN Res(l.vm, l.err)
                          ELSE Res(push(l.vm, VFunction(l.ups, constant.v.block,
                                                        constant.v.ty)), "Continue")
                 ELSE Res(push(u.vm, constant), "Continue")

\* `slot as usize` of a negative i64 is 2^64 - |slot|, above every vector length.
as_usize(i) == IF i < 0 THEN HugeUsize + i ELSE i

eval_Index(vm) ==
    IF Len(vm.stack) < 2 THEN Res(vm, "Panic")
    ELSE LET slot == top(vm)
             val == vm.stack[Len(vm.stack) - 1]
             vm1 == popped(vm, 2)
         IN  IF val.k = "Tuple" /\ slot.k = "Int"
             THEN IF Len(val.v) < as_usize(slot.v)
                  THEN Res(push(vm1, Nil), "IndexOutOfBounds")
                  ELSE IF as_usize(slot.v) >= Len(val.v) THEN Res(vm1, "Panic")
                  ELSE Res(push(vm1, At(val.v, as_usize(slot.v))), "Continue")
             ELSE Res(push(vm1, Nil), "RuntimeTypeError")

\* blobs[ty].fields.get(field): the slot of the field, -1 for None.
field_slot(prog, ty, field) ==
    LET fs == prog.blobs[ty].fields
        hit == {i \in 1..Len(fs) : fs[i].name = field}
    IN  IF hit = {} THEN -1 ELSE (CHOOSE i \in hit : TRUE) - 1

eval_Get(vm, prog) ==
    LET u == usize(vm, prog)
    IN  IF u.err # "" THEN Res(vm, u.err)
        ELSE IF Len(u.vm.stack) < 1 \/ u.n >= Len(prog.strings) THEN Res(u.vm, "Panic")
        ELSE LET inst == top(u.vm)
                 vm1 == popped(u.vm, 1)
             IN  IF inst.k = "Instance"
                 THEN LET slot == field_slot(prog, inst.v.blob, At(prog.strings, u.n))
                          values == IF inst.v.ref = 0 THEN <<>> ELSE vm1.heap[inst.v.ref]
                      IN  IF slot < 0 \/ slot >= Len(values) THEN Res(vm1, "Panic")
                          ELSE Res(push(vm1, At(values, slot)), "Continue")
                 ELSE Res(vm1, "RuntimeTypeError")

eval_Set(vm, prog) ==
    LET u == usize(vm, prog)
    IN  IF u.err # "" THEN Res(vm, u.err)
        ELSE IF Len(u.vm.stack) < 2 \/ u.n >= Len(prog.strings) THEN Res(u.vm, "Panic")
        ELSE LET inst == u.vm.stack[Len(u.vm.stack) - 1]
                 value == top(u.vm)
                 vm1 == popped(u.vm, 2)
             IN  IF inst.k = "Instance"
                 THEN LET slot == field_slot(prog, inst.v.blob, At(prog.strings, u.n))
                          values == IF inst.v.ref = 0 THEN <<>> ELSE vm1.heap[inst.v.ref]
                      IN  IF slot < 0 \/ slot >= Len(values) THEN Res(vm1, "Panic")
                          ELSE Res([vm1 EXCEPT !.heap[inst.v.ref] = SetAt(@, slot, value)],
                                   "Continue")
                 ELSE Res(vm1, "RuntimeTypeError")

eval_Jmp(vm, prog) ==
    LET u == usize(vm, prog)
    IN  IF u.err # "" THEN Res(vm, u.err) ELSE Res(set_ip(u.vm, u.n), "Continue")

eval_JmpFalse(vm, prog) ==
    LET u == usize(vm, prog)
    IN  IF u.err # "" THEN Res(vm, u.err)
        ELSE IF Len(u.vm.stack) < 1 THEN Res(u.vm, "Panic")
        ELSE IF top(u.vm).k = "Bool" /\ ~top(u.vm).v
            THEN Res(set_ip(popped(u.vm, 1), u.n), "Continue")
        ELSE Res(popped(u.vm, 1), "Continue")

\* Op::JmpNPop with the loop over lo+1..hi: the lowest dropped slot stays open.
eval_JmpNPop_skip(vm, prog) ==
    LET u == usize(vm, prog)
        w == usize(u.vm, prog)
    IN  IF u.err # "" THEN Res(vm, u.err)
        ELSE IF w.err # "" THEN Res(u.vm, w.err)
        ELSE LET hi == Len(w.vm.stack)
                 lo == hi - w.n
             IN  IF lo < 0 THEN Res(w.vm, "Panic")
                 ELSE Res(set_ip(popped(close_range(w.vm, lo + 1, hi), w.n), u.n),
                          "Continue")

eval_JmpNPop(vm, prog) ==
    LET u == usize(vm, prog)
        w == usize(u.vm, prog)
    IN  IF u.err # "" THEN Res(vm, u.err)
        ELSE IF w.err # "" THEN Res(u.vm, w.err)
        ELSE LET hi == Len(w.vm.stack)
                 lo == hi - w.n
             IN  IF lo < 0 THEN Res(w.vm, "Panic")
                 ELSE Res(set_ip(popped(close_range(w.vm, lo, hi), w.n), u.n), "Continue")

\* Op::Assert: only Bool(false) fails; any other value is replaced by Bool(true).
eval_Assert(vm) ==
    IF Len(vm.stack) < 1 THEN Res(vm, "Panic")
    ELSE IF top(vm).k = "Bool" /\ ~top(vm).v THEN Res(popped(vm, 1), "AssertFailed")
    ELSE Res(push(popped(vm, 1), VBool(TRUE)), "Continue")

eval_ReadUpvalue(vm, prog) ==
    LET u == usize(vm, prog)
        offset == frame(vm).stack_offset
    IN  IF u.err # "" THEN Res(vm, u.err)
        ELSE IF offset >= Len(u.vm.stack) \/ At(u.vm.stack, offset).k # "Function"
            THEN Res(u.vm, "Panic")
        ELSE LET ups == At(u.vm.stack, offset).v.ups
             IN  IF u.n >= Len(ups) THEN Res(u.vm, "Panic")
                 ELSE LET value == UpValue_get(u.vm.cells[At(ups, u.n)], u.vm.stack)
                      IN  IF value.k = "Panic" THEN Res(u.vm, "Panic")
                          ELSE Res(push(u.vm, value), "Continue")

eval_AssignUpvalue(vm, prog) ==
    LET u == usize(vm, prog)
        offset == frame(vm).stack_offset
    IN  IF u.err # "" THEN Res(vm, u.err)
        ELSE IF Len(u.vm.stack) < 1 THEN Res(u.vm, "Panic")
        ELSE LET value == top(u.vm)
                 vm1 == popped(u.vm, 1)
             IN  IF offset >= Len(vm1.stack) \/ At(vm1.stack, offset).k # "Function"
                 THEN Res(vm1, "Panic")
                 ELSE LET ups == At(vm1.stack, offset).v.ups
                      IN  IF u.n >= Len(ups) THEN Res(vm1, "Panic")
                          ELSE UpValue_set(vm1, At(ups, u.n), value)

eval_ReadLocal(vm, prog) ==
    LET u == usize(vm, prog)
        slot == frame(vm).stack_offset + u.n
    IN  IF u.err # "" THEN Res(vm, u.err)
        ELSE IF slot >= Len(u.vm.stack) THEN Res(u.vm, "Panic")
        ELSE Res(push(u.vm, At(u.vm.stack, slot)), "Continue")

eval_AssignLocal(vm, prog) ==
    LET u == usize(vm, prog)
        slot == frame(vm).stack_offset + u.n
    IN  IF u.err # "" THEN Res(vm, u.err)
        ELSE IF Len(u.vm.stack) < 1 THEN Res(u.vm, "Panic")
        ELSE IF slot >= Len(u.vm.stack) - 1 THEN Res(popped(u.vm, 1), "Panic")
        ELSE Res([popped(u.vm, 1) EXCEPT !.stack = SetAt(@, slot, top(u.vm))], "Continue")

\* Op::Define => {}: the arm reads no operand, so ip stays at the first byte of
\* the operand the compiler emitted after the op.
eval_Define(vm) == Res(vm, "Continue")

\* History: the VM after it has called the external function of that name
\* with that typecheck_mode.
invoked(vm, name, typecheck) ==
    [vm EXCEPT !.invoked = Append(@, [name |-> name, typecheck |-> typecheck])]

\* The linked external functions (lib.rs "standard library").  dbg takes one
\* value; len takes a tuple; push takes a list, which no op of this VM builds.
extern_function(name, args, typecheck) ==
    CASE name = "dbg" /\ Len(args) = 1 -> [ok |-> TRUE, value |-> Nil]
      [] name = "len" /\ Len(args) = 1 /\ args[1].k = "Tuple" ->
            [ok |-> TRUE,
             value |-> IF typecheck THEN ValueOf(TInt) ELSE VInt(Len(args[1].v))]
      [] OTHER -> [ok |-> FALSE, value |-> Nil]

\* Op::Call with the new frame based at the first argument instead of the callee.
eval_Call_base(vm, prog) ==
    LET u == usize(vm, prog)
        num_args == u.n
        new_base == Len(u.vm.stack) - 1 - num_args
    IN  IF u.err # "" THEN Res(vm, u.err)
        ELSE IF new_base < 0 THEN Res(u.vm, "Panic")
        ELSE LET callee == At(u.vm.stack, new_base)
             IN  CASE callee.k = "Blob" ->
                        \* self.pop() takes the topmost value, then the instance is pushed.
                        LET values == [i \in 1..Len(prog.blobs[callee.v].fields) |-> Nil]
                            vm1 == [u.vm EXCEPT !.heap = Append(@, values)]
                        IN  Res(push(popped(vm1, 1),
                                     VBlobInstance(callee.v, Len(vm1.heap))), "Continue")
                   [] callee.k = "Function" ->
                        IF callee.v.block = 0 THEN Res(u.vm, "Panic")
                        ELSE IF Len(callee.v.ty.v.a) # num_args
                            THEN Res(u.vm, "InvalidProgram")
                        ELSE Res([u.vm EXCEPT !.frames = Append(@,
                                    [stack_offset |-> new_base + 1, block |-> callee.v.block,
                                     ip |-> 0])], "Continue")
                   [] callee.k = "ExternFunction" ->
                        IF callee.v >= Len(prog.functions) THEN Res(u.vm, "Panic")
                        ELSE LET r == extern_function(At(prog.functions, callee.v),
                                        Drop(u.vm.stack, new_base + 1), FALSE)
                             IN  IF ~r.ok THEN Res(invoked(u.vm, At(prog.functions, callee.v), FALSE),
                                              "ExternTypeMismatch")
                                 ELSE Res(push([invoked(u.vm, At(prog.functions, callee.v), FALSE)
                                             EXCEPT !.stack = Take(@, new_base)],
                                               r.value), "Continue")
                   [] OTHER -> Res(u.vm, "Panic")

eval_Call(vm, prog) ==
    LET u == usize(vm, prog)
        num_args == u.n
        new_base == Len(u.vm.stack) - 1 - num_args
    IN  IF u.err # "" THEN Res(vm, u.err)
        ELSE IF new_base < 0 THEN Res(u.vm, "Panic")
        ELSE LET callee == At(u.vm.stack, new_base)
             IN  CASE callee.k = "Blob" ->
                        \* self.pop() takes the topmost value, then the instance is pushed.
                        LET values == [i \in 1..Len(prog.blobs[callee.v].fields) |-> Nil]
                            vm1 == [u.vm EXCEPT !.heap = Append(@, values)]
                        IN  Res(push(popped(vm1, 1),
                                     VBlobInstance(callee.v, Len(vm1.heap))), "Continue")
                   [] callee.k = "Function" ->
                        IF callee.v.block = 0 THEN Res(u.vm, "Panic")
                        ELSE IF Len(callee.v.ty.v.a) # num_args
                            THEN Res(u.vm, "InvalidProgram")
                        ELSE Res([u.vm EXCEPT !.frames = Append(@,
                                    [stack_offset |-> new_base, block |-> callee.v.block,
                                     ip |-> 0])], "Continue")
                   [] callee.k = "ExternFunction" ->
                        IF callee.v >= Len(prog.functions) THEN Res(u.vm, "Panic")
                        ELSE LET r == extern_function(At(prog.functions, callee.v),
                                        Drop(u.vm.stack, new_base + 1), FALSE)
                             IN  IF ~r.ok THEN Res(invoked(u.vm, At(prog.functions, callee.v), FALSE),
                                              "ExternTypeMismatch")
                                 ELSE Res(push([invoked(u.vm, At(prog.functions, callee.v), FALSE)
                                             EXCEPT !.stack = Take(@, new_base)],
                                               r.value), "Continue")
                   [] OTHER -> Res(u.vm, "Panic")

eval_Print(vm) ==
    IF Len(vm.stack) < 1 THEN Res(vm, "Panic") ELSE Res(popped(vm, 1), "Continue")

\* Op::Return with truncate(stack_offset + 2): the first argument stays.
eval_Return_keep(vm) ==
    LET last == frame(vm)
        vm1 == [vm EXCEPT !.frames = Front(@)]
    IN  IF Len(vm1.frames) = 0 THEN Res(vm1, "Done")
        ELSE IF Len(vm1.stack) < 1 THEN Res(vm1, "Panic")
        ELSE IF last.stack_offset >= Len(vm1.stack) - 1 THEN Res(popped(vm1, 1), "Panic")
        ELSE LET vm2 == [popped(vm1, 1) EXCEPT
                            !.stack = SetAt(@, last.stack_offset, top(vm1))]
                 vm3 == close_range(vm2, last.stack_offset + 1, Len(vm2.stack))
             IN  Res([vm3 EXCEPT !.stack = Take(@, last.stack_offset + 2)], "Continue")

\* Op::Return without the loop over the slots above stack_offset: no cell is
\* closed.
eval_Return_open(vm) ==
    LET last == frame(vm)
        vm1 == [vm EXCEPT !.frames = Front(@)]
    IN  IF Len(vm1.frames) = 0 THEN Res(vm1, "Done")
        ELSE IF Len(vm1.stack) < 1 THEN Res(vm1, "Panic")
        ELSE IF last.stack_offset >= Len(vm1.stack) - 1 THEN Res(popped(vm1, 1), "Panic")
        ELSE LET vm2 == [popped(vm1, 1) EXCEPT
                            !.stack = SetAt(@, last.stack_offset, top(vm1))]
             IN  Res([vm2 EXCEPT !.stack = Take(@, last.stack_offset + 1)], "Continue")

eval_Return(vm) ==
    LET last == frame(vm)
        vm1 == [vm EXCEPT !.frames = Front(@)]
    IN  IF Len(vm1.frames) = 0 THEN Res(vm1, "Done")
        ELSE IF Len(vm1.stack) < 1 THEN Res(vm1, "Panic")
        ELSE IF last.stack_offset >= Len(vm1.stack) - 1 THEN Res(popped(vm1, 1), "Panic")
        ELSE LET vm2 == [popped(vm1, 1) EXCEPT
                            !.stack = SetAt(@, last.stack_offset, top(vm1))]
                 vm3 == close_range(vm2, last.stack_offset + 1, Len(vm2.stack))
             IN  Res([vm3 EXCEPT !.stack = Take(@, last.stack_offset + 1)], "Continue")

\* VM::eval_op.  vm.rs has no arm for an op named List or Link.
eval_op(vm, prog, o) ==
    CASE o = "Nop" -> Res(vm, "Continue")
      [] o = "Illegal" -> Res(vm, "InvalidProgram")
      [] o = "Unreachable" -> Res(vm, "Unreachable")
      [] o = "Pop" -> eval_Pop(vm)
      [] o = "Tuple" -> eval_Tuple(vm, prog)
      [] o = "PopUpvalue" -> eval_PopUpvalue(vm)
      [] o = "Copy" -> eval_Copy(vm)
      [] o = "Yield" -> eval_Yield(vm)
      [] o = "Constant" -> eval_Constant(vm, prog)
      [] o = "Index" -> eval_Index(vm)
      [] o = "Get" -> eval_Get(vm, prog)
      [] o = "Set" -> eval_Set(vm, prog)
      [] o \in {"Neg", "Not"} -> eval_unary(vm, o)
      [] o \in {"Add", "Sub", "Mul", "Div", "Equal", "Less", "Greater", "And", "Or"} ->
            eval_binary(vm, o)
      [] o = "Jmp" -> eval_Jmp(vm, prog)
      [] o = "JmpFalse" -> eval_JmpFalse(vm, prog)
      [] o = "JmpNPop" -> eval_JmpNPop(vm, prog)
      [] o = "Assert" -> eval_Assert(vm)
      [] o = "ReadUpvalue" -> eval_ReadUpvalue(vm, prog)
      [] o = "AssignUpvalue" -> eval_AssignUpvalue(vm, prog)
      [] o = "ReadLocal" -> eval_ReadLocal(vm, prog)
      [] o = "AssignLocal" -> eval_AssignLocal(vm, prog)
      [] o = "Define" -> eval_Define(vm)
      [] o = "Call" -> eval_Call(vm, prog)
      [] o = "Print" -> eval_Print(vm)
      [] o = "Return" -> eval_Return(vm)
      [] OTHER -> Res(vm, o)

(***************************************************************************)
(* VM::check_op, one operator per arm.  An arm yields Res(vm, result) with *)
(* result "Ok", the ErrorKind of an Err, "Panic" or "Misdecode"; the       *)
(* Constant arm also rewrites the up-value types of the block it links.    *)
(***************************************************************************)
Block_args(ty) == ty.v.a
Block_ret(ty) == ty.v.r

\* check_op's Jmp arm taking the jump, as eval_op does.
check_skip_taken(vm, prog) ==
    LET u == usize(vm, prog)
    IN  IF u.err # "" THEN Res(vm, u.err) ELSE Res(set_ip(u.vm, u.n), "Ok")

check_skip(vm, prog) ==
    LET u == usize(vm, prog)
    IN  IF u.err # "" THEN Res(vm, u.err) ELSE Res(u.vm, "Ok")

RECURSIVE unify_upvalues(_, _, _)
\* The second loop of check_op's Constant arm: a descriptor of a captured local
\* takes the suggested type if it is Unknown and must equal it otherwise.
unify_upvalues(descs, types, i) ==
    IF i > Len(descs) THEN [descs |-> descs, err |-> ""]
    ELSE IF descs[i].is_up THEN unify_upvalues(descs, types, i + 1)
    ELSE IF descs[i].ty.k = "Unknown"
        THEN unify_upvalues([descs EXCEPT ![i].ty = types[i]], types, i + 1)
    ELSE IF ~TypeEq(descs[i].ty, types[i]) THEN [descs |-> descs, err |-> "TypeError"]
    ELSE unify_upvalues(descs, types, i + 1)

check_Constant(vm, prog) ==
    LET u == usize(vm, prog)
    IN  IF u.err # "" THEN [vm |-> vm, prog |-> prog, res |-> u.err]
        ELSE IF u.n >= Len(prog.constants) THEN [vm |-> u.vm, prog |-> prog, res |-> "Panic"]
        ELSE LET constant == At(prog.constants, u.n)
             IN  IF constant.k = "Function"
                 THEN LET b == constant.v.block
                          descs == prog.blocks[b].upvalues
                          vm1 == push(u.vm, VFunction(<<>>, b, constant.v.ty))
                      IN  IF \E i \in 1..Len(descs) :
                                ~descs[i].is_up /\ descs[i].slot >= Len(vm1.stack)
                          THEN [vm |-> vm1, prog |-> prog, res |-> "Panic"]
                          ELSE LET types == [i \in 1..Len(descs) |->
                                        IF descs[i].is_up THEN descs[i].ty
                                        ELSE TypeOf(At(vm1.stack, descs[i].slot))]
                                   un == unify_upvalues(descs, types, 1)
                               IN  [vm |-> vm1,
                                    prog |-> [prog EXCEPT !.blocks[b].upvalues = un.descs],
                                    res |-> IF un.err # "" THEN un.err ELSE "Ok"]
                 ELSE [vm |-> push(u.vm, constant), prog |-> prog, res |-> "Ok"]

check_Get(vm, prog) ==
    LET u == usize(vm, prog)
    IN  IF u.err # "" THEN Res(vm, u.err)
        ELSE IF Len(u.vm.stack) < 1 \/ u.n >= Len(prog.strings) THEN Res(u.vm, "Panic")
        ELSE LET inst == top(u.vm)
                 vm1 == popped(u.vm, 1)
             IN  IF inst.k = "Instance"
                 THEN LET slot == field_slot(prog, inst.v.blob, At(prog.strings, u.n))
                      IN  IF slot < 0 THEN Res(vm1, "Panic")
                          ELSE Res(push(vm1, ValueOf(At(prog.blobs[inst.v.blob].fields,
                                                        slot).ty)), "Ok")
                 ELSE Res(push(vm1, Nil), "RuntimeTypeError")

check_Set(vm, prog) ==
    LET u == usize(vm, prog)
    IN  IF u.err # "" THEN Res(vm, u.err)
        ELSE IF Len(u.vm.stack) < 2 \/ u.n >= Len(prog.strings) THEN Res(u.vm, "Panic")
        ELSE LET inst == u.vm.stack[Len(u.vm.stack) - 1]
                 value == top(u.vm)
                 vm1 == popped(u.vm, 2)
             IN  IF inst.k = "Instance"
                 THEN LET slot == field_slot(prog, inst.v.blob, At(prog.strings, u.n))
                      IN  IF slot < 0 THEN Res(vm1, "Panic")
                          ELSE IF ~TypeEq(At(prog.blobs[inst.v.blob].fields, slot).ty,
                                          TypeOf(value))
                              THEN Res(vm1, "RuntimeTypeError")
                          ELSE Res(vm1, "Ok")
                 ELSE Res(vm1, "RuntimeTypeError")

check_PopUpvalue(vm) ==
    IF Len(vm.stack) < 1 THEN Res(vm, "Panic") ELSE Res(popped(vm, 1), "Ok")

check_ReadUpvalue(vm, prog) ==
    LET u == usize(vm, prog)
        ups == block_of(vm, prog).upvalues
    IN  IF u.err # "" THEN Res(vm, u.err)
        ELSE IF u.n >= Len(ups) THEN Res(u.vm, "Panic")
        ELSE Res(push(u.vm, ValueOf(At(ups, u.n).ty)), "Ok")

check_AssignUpvalue(vm, prog) ==
    LET u == usize(vm, prog)
        ups == block_of(vm, prog).upvalues
    IN  IF u.err # "" THEN Res(vm, u.err)
        ELSE IF u.n >= Len(ups) \/ Len(u.vm.stack) < 1 THEN Res(u.vm, "Panic")
        ELSE IF ~TypeEq(At(ups, u.n).ty, TypeOf(top(u.vm)))
            THEN Res(popped(u.vm, 1), "TypeError")
        ELSE Res(popped(u.vm, 1), "Ok")

check_Return(vm, prog) ==
    IF Len(vm.stack) < 1 \/ block_of(vm, prog).ty.k # "Function" THEN Res(vm, "Panic")
    ELSE IF ~TypeEq(TypeOf(top(vm)), Block_ret(block_of(vm, prog).ty))
        THEN Res(popped(vm, 1), "TypeError")
    ELSE Res(popped(vm, 1), "Ok")

check_Print(vm) ==
    IF Len(vm.stack) < 1 THEN Res(vm, "Panic") ELSE Res(popped(vm, 1), "Ok")

check_Define(vm, prog) ==
    LET u == usize(vm, prog)
    IN  IF u.err # "" THEN Res(vm, u.err)
        ELSE IF u.n >= Len(prog.constants) \/ At(prog.constants, u.n).k # "Ty"
                \/ Len(u.vm.stack) < 1
            THEN Res(u.vm, "Panic")
        ELSE LET ty == At(prog.constants, u.n).v
                 top_type == TypeOf(top(u.vm))
             IN  IF ty.k = "Unknown" /\ ~TypeEq(top_type, TUnknown) THEN Res(u.vm, "Ok")
                 ELSE IF ~TypeEq(ty, top_type) THEN Res(u.vm, "TypeError")
                 ELSE Res(u.vm, "Ok")

\* check_op's Call arm with `_ => {}` as its last arm: any callee passes.
check_Call_any(vm, prog) ==
    LET u == usize(vm, prog)
        num_args == u.n
        new_base == Len(u.vm.stack) - 1 - num_args
    IN  IF u.err # "" THEN Res(vm, u.err)
        ELSE IF new_base < 0 THEN Res(u.vm, "Panic")
        ELSE LET callee == At(u.vm.stack, new_base)
             IN  CASE callee.k = "Blob" ->
                        \* The field vector holds the exemplar of each field's type.
                        LET fs == prog.blobs[callee.v].fields
                            values == [i \in 1..Len(fs) |-> ValueOf(fs[i].ty)]
                            vm1 == [u.vm EXCEPT !.heap = Append(@, values)]
                        IN  Res(push(popped(vm1, 1),
                                     VBlobInstance(callee.v, Len(vm1.heap))), "Ok")
                   [] callee.k = "Function" ->
                        LET ty == callee.v.ty
                        IN  IF ty.k # "Function" THEN Res(u.vm, "Panic")
                            ELSE IF Len(Block_args(ty)) # num_args
                                THEN Res(u.vm, "InvalidProgram")
                            ELSE LET stack_args ==
                                        [i \in 1..num_args |->
                                            TypeOf(u.vm.stack[Len(u.vm.stack) - num_args + i])]
                                 IN  IF ~TypesEq(Block_args(ty), stack_args)
                                     THEN Res(u.vm, "TypeError")
                                     ELSE Res([u.vm EXCEPT !.stack =
                                                Append(Take(@, new_base),
                                                       ValueOf(Block_ret(ty)))], "Ok")
                   [] callee.k = "ExternFunction" ->
                        IF callee.v >= Len(prog.functions) THEN Res(u.vm, "Panic")
                        ELSE LET r == extern_function(At(prog.functions, callee.v),
                                        Drop(u.vm.stack, new_base + 1), FALSE)
                                 vm1 == [invoked(u.vm, At(prog.functions, callee.v), FALSE)
                                             EXCEPT !.stack = Take(@, new_base)]
                             IN  IF ~r.ok THEN Res(push(vm1, Nil), "ExternTypeMismatch")
                                 ELSE Res(push(vm1, r.value), "Ok")
                   [] OTHER -> Res(u.vm, "Ok")

\* The type of the callee's block: Function values carry the type of their block.
check_Call(vm, prog) ==
    LET u == usize(vm, prog)
        num_args == u.n
        new_base == Len(u.vm.stack) - 1 - num_args
    IN  IF u.err # "" THEN Res(vm, u.err)
        ELSE IF new_base < 0 THEN Res(u.vm, "Panic")
        ELSE LET callee == At(u.vm.stack, new_base)
             IN  CASE callee.k = "Blob" ->
                        \* The field vector holds the exemplar of each field's type.
                        LET fs == prog.blobs[callee.v].fields
                            values == [i \in 1..Len(fs) |-> ValueOf(fs[i].ty)]
                            vm1 == [u.vm EXCEPT !.heap = Append(@, values)]
                        IN  Res(push(popped(vm1, 1),
                                     VBlobInstance(callee.v, Len(vm1.heap))), "Ok")
                   [] callee.k = "Function" ->
                        LET ty == callee.v.ty
                        IN  IF ty.k # "Function" THEN Res(u.vm, "Panic")
                            ELSE IF Len(Block_args(ty)) # num_args
                                THEN Res(u.vm, "InvalidProgram")
                            ELSE LET stack_args ==
                                        [i \in 1..num_args |->
                                            TypeOf(u.vm.stack[Len(u.vm.stack) - num_args + i])]
                                 IN  IF ~TypesEq(Block_args(ty), stack_args)
                                     THEN Res(u.vm, "TypeError")
                                     ELSE Res([u.vm EXCEPT !.stack =
                                                Append(Take(@, new_base),
                                                       ValueOf(Block_ret(ty)))], "Ok")
                   [] callee.k = "ExternFunction" ->
                        IF callee.v >= Len(prog.functions) THEN Res(u.vm, "Panic")
                        ELSE LET r == extern_function(At(prog.functions, callee.v),
                                        Drop(u.vm.stack, new_base + 1), FALSE)
                                 vm1 == [invoked(u.vm, At(prog.functions, callee.v), FALSE)
                                             EXCEPT !.stack = Take(@, new_base)]
                             IN  IF ~r.ok THEN Res(push(vm1, Nil), "ExternTypeMismatch")
                                 ELSE Res(push(vm1, r.value), "Ok")
                   [] OTHER -> Res(u.vm, "TypeError")

check_JmpFalse(vm, prog) ==
    LET u == usize(vm, prog)
    IN  IF u.err # "" THEN Res(vm, u.err)
        ELSE IF Len(u.vm.stack) < 1 THEN Res(u.vm, "Panic")
        ELSE IF top(u.vm).k = "Bool" THEN Res(popped(u.vm, 1), "Ok")
        ELSE Res(popped(u.vm, 1), "TypeError")

check_JmpNPop(vm, prog) ==
    LET u == usize(vm, prog)
        w == usize(u.vm, prog)
    IN  IF u.err # "" THEN Res(vm, u.err)
        ELSE IF w.err # "" THEN Res(u.vm, w.err)
        ELSE Res(w.vm, "Ok")

\* VM::check_op.  Every op without an arm of its own is handed to eval_op, whose
\* Ok(_) is Ok(()) here.
check_op(vm, prog, o) ==
    LET same(r) == [vm |-> r.vm, prog |-> prog,
                    res |-> IF r.res \in {"Continue", "Yield", "Done"} THEN "Ok" ELSE r.res]
    IN  CASE o = "Unreachable" -> same(Res(vm, "Ok"))
          [] o = "Jmp" -> same(check_skip(vm, prog))
          [] o = "Yield" -> same(Res(vm, "Ok"))
          [] o = "Constant" -> check_Constant(vm, prog)
          [] o = "Get" -> same(check_Get(vm, prog))
          [] o = "Set" -> same(check_Set(vm, prog))
          [] o = "PopUpvalue" -> same(check_PopUpvalue(vm))
          [] o = "ReadUpvalue" -> same(check_ReadUpvalue(vm, prog))
          [] o = "AssignUpvalue" -> same(check_AssignUpvalue(vm, prog))
          [] o = "Return" -> same(check_Return(vm, prog))
          [] o = "Print" -> same(check_Print(vm))
          [] o = "Define" -> same(check_Define(vm, prog))
          [] o = "Call" -> same(check_Call(vm, prog))
          [] o = "JmpFalse" -> same(check_JmpFalse(vm, prog))
          [] o = "JmpNPop" -> same(check_JmpNPop(vm, prog))
          [] OTHER -> same(eval_op(vm, prog, o))

\* VM::new
VM_new ==
    [stack |-> <<>>, frames |-> <<>>, upvalues |-> <<>>, cells |-> <<>>,
     heap |-> <<>>, runtime |-> FALSE, invoked |-> <<>>]

\* The head of VM::typecheck_block, up to the loop: the block's function and the
\* exemplars of its parameter types on a cleared stack, one frame.
typecheck_block_enter(vm, prog, b) ==
    LET ty == prog.blocks[b].ty
        args == [i \in 1..Len(Block_args(ty)) |-> ValueOf(Block_args(ty)[i])]
    IN  [vm EXCEPT !.stack = <<VFunction(<<>>, b, ty)>> \o args,
                   !.frames = <<[stack_offset |-> 0, block |-> b, ip |-> 0]>>]

\* One turn of the loop of VM::typecheck_block: decode, check, on an Err skip one
\* more byte, then replace the top of the stack by its identity.
typecheck_step(vm, prog) ==
    LET identity_of_top(v) ==
            IF Len(v.stack) = 0 THEN v ELSE push(popped(v, 1), identity(top(v)))
        checked(r) ==
            [vm |-> IF r.res \in {"Panic", "Misdecode"} THEN r.vm
                    ELSE identity_of_top(IF r.res = "Ok" THEN r.vm
                                         ELSE set_ip(r.vm, frame(r.vm).ip + 1)),
             prog |-> r.prog, res |-> r.res]
        decoded(d) == checked(check_op(d.vm, prog, d.op))
    IN  decoded(op(vm, prog))

\* VM::init
VM_init(vm, prog) ==
    [vm EXCEPT !.stack = <<VFunction(<<>>, 1, prog.blocks[1].ty)>>,
               !.frames = <<[stack_offset |-> 0, block |-> 1, ip |-> 0]>>,
               !.runtime = TRUE]

\* One turn of the loop of VM::run.
run_step(vm, prog) ==
    LET decoded(d) == eval_op(d.vm, prog, d.op)
    IN  decoded(op(vm, prog))

(***************************************************************************)
(* The compiler (compiler.rs).  The Compiler struct and the block being    *)
(* written are one record c:                                               *)
(*   curr, tokens, frames, panic, errors, blocks, blobs, constants,        *)
(*   strings as in struct Compiler;                                        *)
(*   bs       the blocks under construction, innermost last (the `block`   *)
(*            argument every parse method takes);                          *)
(*   recorded every message Compiler::error has ever pushed, in order;     *)
(*   reported the number of statements that ended in panic mode, that is   *)
(*            with an error no parse_branch! took back;                    *)
(*   crash    a Rust panic happened inside the compiler.                   *)
(* A token is [t, v]: t the variant of enum Token, v its payload.          *)
(***************************************************************************)
Tok(t) == [t |-> t, v |-> 0]
Id(name) == [t |-> "Identifier", v |-> name]
IntTok(i) == [t |-> "Int", v |-> i]
BoolTok(b) == [t |-> "Bool", v |-> b]
StringTok(s) == [t |-> "String", v |-> s]
EOF == Tok("EOF")
NL == Tok("Newline")

Frame_new == [loops |-> <<>>, stack |-> <<>>, upvalues |-> <<>>, scope |-> 0]

\* Block::new
Block_new(name) == [name |-> name, ty |-> TVoid, ops |-> <<>>, upvalues |-> <<>>]

\* Compiler::new
Compiler_new(tokens) ==
    [curr |-> 0, tokens |-> tokens, frames |-> <<Frame_new>>, panic |-> FALSE,
     errors |-> <<>>, blocks |-> <<>>, blobs |-> <<>>, constants |-> <<Nil>>,
     strings |-> <<>>, bs |-> <<>>, recorded |-> <<>>, reported |-> 0,
     crash |-> FALSE, marks |-> <<>>, branches |-> <<>>, statements |-> 0,
     windows |-> <<>>, resolved |-> <<>>, declared |-> <<>>,
     initialised |-> <<>>, turns |-> <<>>]

\* History: one entry for every iteration of a parsing loop that is followed
\* by another iteration of the same loop: the cursor and the panic flag at the
\* start of the iteration (c) and at its end (c1).
turn(loop, c, c1) ==
    IF c1.crash THEN c1
    ELSE [c1 EXCEPT !.turns = Append(@, [loop |-> loop, from |-> c.curr, to |-> c1.curr,
                                         panic |-> c.panic, panicked |-> c1.panic])]

crashed(c) == [c EXCEPT !.crash = TRUE, !.panic = TRUE]

peek_at(c, at) ==
    IF Len(c.tokens) <= c.curr + at THEN EOF ELSE At(c.tokens, c.curr + at)
peek(c) == peek_at(c, 0)
eat(c) == [c EXCEPT !.curr = @ + 1]

\* Compiler::error: records nothing while in panic mode.  History: windows
\* holds, for every error in errors, the number of statements begun when it
\* was recorded.
error(c, msg) ==
    IF c.panic THEN c
    ELSE [c EXCEPT !.panic = TRUE, !.errors = Append(@, msg),
                   !.recorded = Append(@, msg),
                   !.windows = Append(@, c.statements)]

\* expect!: eats the token if it is one of kinds, records msg otherwise.
\* Nothing runs once the compiler has crashed.
expect(c, kinds, msg) ==
    IF c.crash THEN c
    ELSE IF peek(c).t \in kinds THEN eat(c) ELSE error(c, msg)

\* Compiler::clear_panic
RECURSIVE skip_line(_)
skip_line(c) == IF peek(c).t \in {"EOF", "Newline"} THEN c ELSE skip_line(eat(c))
\* clear_panic without its loop: it eats one token only.
clear_panic_one(c) ==
    IF c.panic /\ ~c.crash
    THEN eat([c EXCEPT !.panic = FALSE, !.reported = @ + 1])
    ELSE c

clear_panic(c) ==
    IF c.panic /\ ~c.crash
    THEN eat(skip_line([c EXCEPT !.panic = FALSE, !.reported = @ + 1]))
    ELSE c

c_frame(c) == Last(c.frames)
c_stack(c) == c_frame(c).stack
c_block(c) == Last(c.bs)
\* Block::curr
block_curr(c) == Len(c_block(c).ops)

\* Block::add_op, Block::add_usize, Block::add and Block::patch: the position
\* returned is the length of ops before the bytes were written.
add_op(c, name) == [c EXCEPT !.bs[Len(c.bs)].ops = Append(@, OpByte(name))]
add_usize(c, n) == [c EXCEPT !.bs[Len(c.bs)].ops = @ \o be_bytes(n)]
\* fn add(compiler, block, op, n) of compiler.rs (op::add is the operator above).
compiler_add(c, name, n) == add_usize(add_op(c, name), n)
patch(c, n, addr) ==
    IF addr + 8 > block_curr(c) THEN crashed(c)
    ELSE [c EXCEPT !.bs[Len(c.bs)].ops =
            [i \in 1..Len(@) |-> IF i > addr /\ i <= addr + 8 THEN be_bytes(n)[i - addr]
                                 ELSE @[i]]]
\* block.patch(block.curr(), addr)
patch_to_curr(c, addr) == patch(c, block_curr(c), addr)

add_constant(c, value) == [c EXCEPT !.constants = Append(@, value)]
intern_string(c, s) == [c EXCEPT !.strings = Append(@, s)]
\* let constant = self.add_constant(value); add(self, block, Op::Constant, constant)
constant(c, v) == compiler_add(add_constant(c, v), "Constant", Len(c.constants))
\* Compiler::nil_value: constants[0] is Nil from Compiler::new on.
nil_value(c) == (CHOOSE i \in 1..Len(c.constants) :
                    /\ c.constants[i].k = "Nil"
                    /\ \A j \in 1..(i - 1) : c.constants[j].k # "Nil") - 1

(* Prec and Prec::next *)
PrecNo == 0
PrecAssert == 1
PrecBool == 2
PrecComp == 3
PrecTerm == 4
PrecFactor == 5
Prec_next(p) == IF \E x \in PrecNo..PrecFactor : x > p THEN p + 1 ELSE p

precedence(token) ==
    CASE token.t \in {"Star", "Slash"} -> PrecFactor
      [] token.t \in {"Minus", "Plus"} -> PrecTerm
      [] token.t \in {"EqualEqual", "Greater", "GreaterEqual", "Less", "LessEqual",
                      "NotEqual"} -> PrecComp
      [] token.t \in {"And", "Or"} -> PrecBool
      [] token.t = "AssertEqual" -> PrecAssert
      [] OTHER -> PrecNo

(* struct Variable and the look-ups of struct Frame *)
Variable(name, typ, scope, slot, mutable) ==
    [name |-> name, typ |-> typ, scope |-> scope, slot |-> slot, outer_slot |-> 0,
     outer_upvalue |-> FALSE, active |-> FALSE, upvalue |-> FALSE, captured |-> FALSE,
     mutable |-> mutable]

None == [some |-> FALSE]
Some(var) == [some |-> TRUE, var |-> var]

find_in(vars, name) ==
    LET hit == {i \in 1..Len(vars) : vars[i].name = name /\ vars[i].active}
    IN  IF hit = {} THEN None ELSE Some(vars[CHOOSE i \in hit : \A j \in hit : j <= i])
\* Frame::find_local, Frame::find_upvalue
find_local(f, name) == find_in(f.stack, name)
Frame_find_upvalue(f, name) == find_in(f.upvalues, name)

\* Frame::add_upvalue taking every outer variable for a local.
add_upvalue_local(f, variable) ==
    LET new_variable == [variable EXCEPT !.outer_upvalue = FALSE,
                                         !.outer_slot = variable.slot,
                                         !.slot = Len(f.upvalues),
                                         !.active = TRUE,
                                         !.upvalue = TRUE]
    IN  [f |-> [f EXCEPT !.upvalues = Append(@, new_variable)], var |-> new_variable]

\* Frame::add_upvalue
add_upvalue(f, variable) ==
    LET new_variable == [variable EXCEPT !.outer_upvalue = variable.upvalue,
                                         !.outer_slot = variable.slot,
                                         !.slot = Len(f.upvalues),
                                         !.active = TRUE,
                                         !.upvalue = TRUE]
    IN  [f |-> [f EXCEPT !.upvalues = Append(@, new_variable)], var |-> new_variable]

RECURSIVE find_and_capture_variable(_, _, _)
\* Compiler::find_and_capture_variable over frames i, i-1, ..., 1.
find_and_capture_variable(frames, name, i) ==
    IF i = 0 THEN [frames |-> frames, res |-> None]
    ELSE LET l == find_local(frames[i], name)
             u == Frame_find_upvalue(frames[i], name)
         IN  IF l.some
             THEN [frames |-> [frames EXCEPT ![i].stack[l.var.slot + 1].captured = TRUE],
                   res |-> l]
             ELSE IF u.some THEN [frames |-> frames, res |-> u]
             ELSE LET r == find_and_capture_variable(frames, name, i - 1)
                  IN  IF r.res.some
                      THEN LET a == add_upvalue(r.frames[i], r.res.var)
                           IN  [frames |-> [r.frames EXCEPT ![i] = a.f], res |-> Some(a.var)]
                      ELSE [frames |-> r.frames, res |-> None]

\* Compiler::find_variable.  History: resolved holds, for every look-up, the
\* name and the frames before and after it.
find_variable(c, name) ==
    LET l == find_local(c_frame(c), name)
        u == Frame_find_upvalue(c_frame(c), name)
        r == find_and_capture_variable(c.frames, name, Len(c.frames))
        seen(frames) == [c EXCEPT !.frames = frames,
                                  !.resolved = Append(@, [name |-> name,
                                                          before |-> c.frames,
                                                          after |-> frames])]
    IN  IF l.some THEN [c |-> seen(c.frames), res |-> l]
        ELSE IF u.some THEN [c |-> seen(c.frames), res |-> u]
        ELSE [c |-> seen(r.frames), res |-> r.res]

\* Compiler::find_blob: the index of the first blob of that name, 0 for None.
find_blob(c, name) ==
    LET hit == {i \in 1..Len(c.blobs) : c.blobs[i].name = name}
    IN  IF hit = {} THEN 0 ELSE CHOOSE i \in hit : \A j \in hit : i <= j

\* The keys std's RandomState has in the process that compiles: the first or
\* the second of the two processes of a double compilation.
RandomState == IF phase = "source" THEN input.seeds[1] ELSE input.seeds[2]

\* The external functions linked by lib.rs, in link order.
ExternFunctions == <<"dbg", "push", "len">>
\* find_extern_function with the slot taken from the position of the name in
\* the iteration order of the HashMap `functions`, which the keys of the
\* process's RandomState turn.
find_extern_function_iter(name) ==
    LET hit == {i \in 1..Len(ExternFunctions) : ExternFunctions[i] = name}
    IN  IF hit = {} THEN -1
        ELSE ((CHOOSE i \in hit : TRUE) - 1 + RandomState) % Len(ExternFunctions)

\* Compiler::find_extern_function: the slot, -1 for None.
find_extern_function(name) ==
    LET hit == {i \in 1..Len(ExternFunctions) : ExternFunctions[i] = name}
    IN  IF hit = {} THEN -1 ELSE (CHOOSE i \in hit : TRUE) - 1

\* The body shared by Compiler::define_variable and Compiler::define_constant.
\* History: declared holds, for every declaration, the name, the frames before
\* it and whether it was accepted.
define(c, name, typ, mutable) ==
    LET seen(c1, ok) == [c1 EXCEPT !.declared = Append(@, [name |-> name,
                                                           before |-> c.frames,
                                                           ok |-> ok])]
        found(fv) ==
            IF fv.res.some /\ fv.res.var.scope = c_frame(fv.c).scope
            THEN [c |-> seen(error(fv.c, "Multiple definitions"), FALSE),
                  ok |-> FALSE, slot |-> 0]
            ELSE [c |-> seen([fv.c EXCEPT !.frames[Len(fv.c.frames)].stack =
                                Append(@, Variable(name, typ, c_frame(fv.c).scope,
                                                   Len(c_stack(fv.c)), mutable))],
                             TRUE),
                  ok |-> TRUE, slot |-> Len(c_stack(fv.c))]
    IN  found(find_variable(c, name))
define_variable(c, name, typ) == define(c, name, typ, TRUE)
\* define_constant with `mutable: true`.
define_constant_mutable(c, name, typ) == define(c, name, typ, TRUE)
define_constant(c, name, typ) == define(c, name, typ, FALSE)

activate(c, slot) == [c EXCEPT !.frames[Len(c.frames)].stack[slot + 1].active = TRUE]

RECURSIVE parse_type(_)
RECURSIVE parse_fn_type(_, _)
RECURSIVE parse_tuple_type(_, _)
Err(c) == [c |-> c, ok |-> FALSE, ty |-> TVoid]
Ok(c, ty) == [c |-> c, ok |-> TRUE, ty |-> ty]

\* The loop of the Token::Fn arm of Compiler::parse_type.
parse_fn_type(c, params) ==
    CASE peek(c).t \in {"Identifier", "Fn"} ->
            LET r == parse_type(c)
            IN  IF r.ok
                THEN parse_fn_type(IF peek(r.c).t = "Comma" THEN eat(r.c) ELSE r.c,
                                   Append(params, r.ty))
                ELSE Err(error(r.c, "Function type signature contains non-type"))
      [] peek(c).t = "Arrow" ->
            LET r == parse_type(eat(c))
            IN  Ok(r.c, TFunction(params, IF r.ok THEN r.ty ELSE TVoid))
      [] peek(c).t \in {"Comma", "Equal"} -> Ok(c, TFunction(params, TVoid))
      [] OTHER -> Err(error(c, "Function type signature contains non-type"))

\* The loop of the Token::LeftParen arm.
parse_tuple_type(c, element) ==
    LET r == parse_type(c)
    IN  IF ~r.ok THEN Err(r.c)
        ELSE IF peek(r.c).t = "RightParen"
            THEN Ok(eat(r.c), TTuple(Append(element, r.ty)))
        ELSE IF peek(r.c).t = "Comma"
            THEN parse_tuple_type(eat(r.c), Append(element, r.ty))
        ELSE Err(error(r.c, "Expect comma efter element in tuple."))

\* Compiler::parse_type
parse_type(c) ==
    CASE peek(c).t = "Fn" -> parse_fn_type(eat(c), <<>>)
      [] peek(c).t = "LeftParen" -> parse_tuple_type(eat(c), <<>>)
      [] peek(c).t = "Identifier" ->
            LET x == peek(c).v
            IN  CASE x = "int" -> Ok(eat(c), TInt)
                  [] x = "float" -> Ok(eat(c), TFloat)
                  [] x = "bool" -> Ok(eat(c), TBool)
                  [] x = "str" -> Ok(eat(c), TString)
                  [] OTHER -> IF find_blob(c, x) = 0 THEN Err(eat(c))
                              ELSE Ok(eat(c), TInstance(find_blob(c, x)))
      [] OTHER -> Err(c)

(***************************************************************************)
(* The parse methods.  Each takes the compiler record and yields it after  *)
(* the method has run; a Rust loop is a recursive operator.                *)
(***************************************************************************)
\* self("m", <<block, ..>>) is the call self.m(block, ..) of one of the four parse
\* methods through which the others recurse; it is defined after them.
RECURSIVE self(_, _)

\* The rewind of parse_branch! after a call that left the compiler in panic mode:
\* panic is cleared, the cursor and the block are put back, and the errors from
\* index thrown_errors on are split off.  errors.len() - num_errors - 1 below
\* zero is an arithmetic overflow.  History: branches records, for every
\* alternative that failed, the three values of the snapshot, the errors at the
\* failure, and the cursor, the op length and the errors it left.
thrown_errors(c, num_errors) == Len(c.errors) - num_errors - 1

parse_branch_rewind(c, block_length, token_length, num_errors) ==
    IF c.crash THEN c
    ELSE IF thrown_errors(c, num_errors) < 0 THEN crashed(c)
    ELSE [c EXCEPT !.panic = FALSE,
                   !.curr = token_length,
                   !.errors = Take(@, thrown_errors(c, num_errors)),
                   !.windows = Take(@, thrown_errors(c, num_errors)),
                   !.bs[Len(c.bs)].ops = Take(@, block_length),
                   !.branches = Append(@,
                        [block_length |-> block_length, token_length |-> token_length,
                         num_errors |-> num_errors, thrown |-> c.errors,
                         curr |-> token_length,
                         ops |-> Len(Take(c_block(c).ops, block_length)),
                         errors |-> Take(c.errors, thrown_errors(c, num_errors))])]

stored_errors(c, num_errors) ==
    IF c.crash \/ thrown_errors(c, num_errors) < 0 THEN <<>>
    ELSE Drop(c.errors, thrown_errors(c, num_errors))

\* History: the windows of the stored errors.
stored_windows(c, num_errors) ==
    IF c.crash \/ thrown_errors(c, num_errors) < 0 THEN <<>>
    ELSE Drop(c.windows, thrown_errors(c, num_errors))

\* The tail of the two-call form of parse_branch!, after the first call c1 of a
\* compiler c failed: the second call c2 is made on the rewound compiler; if
\* it fails too the errors split off from both are put back.
parse_branch_second(c, c1, c2) ==
    LET rewound(r2) ==
            IF r2.crash THEN r2
            ELSE [r2 EXCEPT !.errors = @ \o stored_errors(c1, Len(c.errors))
                                         \o stored_errors(c2, Len(c.errors)),
                            !.windows = @ \o stored_windows(c1, Len(c.errors))
                                          \o stored_windows(c2, Len(c.errors))]
    IN  IF ~c2.panic THEN c2
        ELSE rewound(parse_branch_rewind(c2, block_curr(c), c.curr, Len(c.errors)))

prefix_ok(token) ==
    token.t \in {"Identifier", "LeftParen", "Minus", "Float", "Int", "Bool", "String", "Bang"}

infix_ok(token) ==
    token.t \in {"Minus", "Plus", "Slash", "Star", "AssertEqual", "EqualEqual", "Greater",
                 "GreaterEqual", "Less", "LessEqual", "NotEqual", "LeftBracket"}

value(c) ==
    LET token == peek(c)
        v == CASE token.t = "Int" -> VInt(token.v)
               [] token.t = "Bool" -> VBool(token.v)
               [] token.t = "String" -> VString(token.v)
               [] token.t = "Float" -> VFloat(token.v)
               [] OTHER -> VBool(FALSE)
    IN  constant(IF token.t \in {"Int", "Bool", "String", "Float"} THEN eat(c)
                 ELSE error(eat(c), "Cannot parse value."), v)

binary_ops(token) ==
    CASE token.t = "Plus" -> <<"Add">>
      [] token.t = "Minus" -> <<"Sub">>
      [] token.t = "Star" -> <<"Mul">>
      [] token.t = "Slash" -> <<"Div">>
      [] token.t = "AssertEqual" -> <<"Equal", "Assert">>
      [] token.t = "EqualEqual" -> <<"Equal">>
      [] token.t = "Less" -> <<"Less">>
      [] token.t = "Greater" -> <<"Greater">>
      [] token.t = "NotEqual" -> <<"Equal", "Not">>
      [] token.t = "LessEqual" -> <<"Greater", "Not">>
      [] token.t = "GreaterEqual" -> <<"Less", "Not">>
      [] OTHER -> <<>>

assign_op(token) ==
    CASE token.t = "PlusEqual" -> "Add"
      [] token.t = "MinusEqual" -> "Sub"
      [] token.t = "StarEqual" -> "Mul"
      [] token.t = "SlashEqual" -> "Div"
      [] OTHER -> ""

\* parse_branch!(self, block, self.expression(block))
parse_branch_expression(c) ==
    LET called(c1) ==
            IF ~c1.panic THEN [c |-> c1, ok |-> TRUE]
            ELSE [c |-> parse_branch_rewind(c1, block_curr(c), c.curr, Len(c.errors)),
                  ok |-> FALSE]
    IN  IF c.panic THEN [c |-> c, ok |-> FALSE] ELSE called(self("expression", <<c>>))

RECURSIVE tuple_loop(_, _)
tuple_loop(c, num_args) ==
    CASE c.crash \/ peek(c).t \in {"RightParen", "EOF"} ->
            [c |-> c, num_args |-> num_args, ret |-> FALSE]
      [] peek(c).t = "Newline" -> tuple_loop(turn("tuple", c, eat(c)), num_args)
      [] OTHER ->
            LET element(c1) ==
                    CASE peek(c1).t = "Comma" ->
                            tuple_loop(turn("tuple", c, eat(c1)), num_args + 1)
                      [] peek(c1).t = "RightParen" ->
                            tuple_loop(turn("tuple", c, c1), num_args + 1)
                      [] OTHER -> [c |-> error(c1, "Expected ',' or ')' in tuple"),
                                   num_args |-> num_args + 1, ret |-> TRUE]
            IN  element(self("expression", <<c>>))

tuple(c) ==
    LET elements(l) ==
            IF l.ret THEN l.c
            ELSE IF l.num_args = 1
                THEN error(l.c, "A tuple must contain more than 1 element.")
            ELSE compiler_add(expect(l.c, {"RightParen"}, "Expected ')' after tuple."),
                              "Tuple", l.num_args)
    IN  elements(tuple_loop(expect(c, {"LeftParen"}, "Expected '(' at start of tuple"), 0))

grouping(c) ==
    expect(self("expression", <<expect(c, {"LeftParen"}, "Expected '(' around expression.")>>),
           {"RightParen"}, "Expected ')' around expression.")

\* parse_branch!(self, block, [self.tuple(block), self.grouping(block)])
grouping_or_tuple(c) ==
    LET second(c1, r1) ==
            IF r1.crash THEN r1 ELSE parse_branch_second(c, c1, grouping(r1))
        first(c1) ==
            IF ~c1.panic THEN c1
            ELSE second(c1, parse_branch_rewind(c1, block_curr(c), c.curr, Len(c.errors)))
    IN  IF c.panic THEN c ELSE first(tuple(c))

index(c) ==
    expect(add_op(self("expression", <<expect(c, {"LeftBracket"}, "Expected '[' around index.")>>),
                  "Index"),
           {"RightBracket"}, "Expected ']' around index.")

unary(c) ==
    LET o == IF peek(c).t = "Bang" THEN "Not" ELSE "Neg"
        c1 == IF peek(c).t \in {"Minus", "Bang"} THEN eat(c)
              ELSE error(eat(c), "Invalid unary operator")
    IN  add_op(self("parse_precedence", <<c1, PrecFactor>>), o)

binary(c) ==
    LET o == peek(c)
        ops == binary_ops(o)
        operand(c1) ==
            [c1 EXCEPT !.bs[Len(c1.bs)].ops = @ \o [i \in 1..Len(ops) |-> OpByte(ops[i])]]
        checked(c1) ==
            IF o.t \in {"Plus", "Minus", "Star", "Slash", "AssertEqual", "EqualEqual",
                        "Less", "Greater", "NotEqual", "LessEqual", "GreaterEqual"}
            THEN c1 ELSE error(c1, "Illegal operator")
    IN  operand(checked(self("parse_precedence", <<eat(c), Prec_next(precedence(o))>>)))

infix(c) == IF peek(c).t = "LeftBracket" THEN index(c) ELSE binary(c)

RECURSIVE call_paren_loop(_, _)
call_paren_loop(c, arity) ==
    CASE peek(c).t = "EOF" ->
            [c |-> error(c, "Unexpected EOF in function call."), arity |-> arity]
      [] peek(c).t = "RightParen" -> [c |-> eat(c), arity |-> arity]
      [] OTHER ->
            LET separated(c2) ==
                    IF c2.panic THEN [c |-> c2, arity |-> arity + 1]
                    ELSE call_paren_loop(turn("call", c, c2), arity + 1)
                argument(c1) ==
                    separated(IF peek(c1).t # "RightParen"
                              THEN expect(c1, {"Comma"}, "Expected ',' after argument.")
                              ELSE c1)
            IN  argument(self("expression", <<c>>))

RECURSIVE call_bang_loop(_, _)
call_bang_loop(c, arity) ==
    CASE peek(c).t = "EOF" ->
            [c |-> error(c, "Unexpected EOF in function call."), arity |-> arity]
      [] peek(c).t = "Newline" -> [c |-> c, arity |-> arity]
      [] OTHER ->
            LET separated(c2) ==
                    IF c2.panic THEN [c |-> c2, arity |-> arity + 1]
                    ELSE call_bang_loop(turn("call", c, c2), arity + 1)
                argument(b) ==
                    IF ~b.ok THEN [c |-> b.c, arity |-> arity]
                    ELSE separated(IF peek(b.c).t = "Comma" THEN eat(b.c) ELSE b.c)
            IN  argument(parse_branch_expression(c))

call(c) ==
    LET arguments(l) == compiler_add(l.c, "Call", l.arity)
    IN  CASE peek(c).t = "LeftParen" -> arguments(call_paren_loop(eat(c), 0))
          [] peek(c).t = "Bang" -> arguments(call_bang_loop(eat(c), 0))
          [] OTHER ->
                compiler_add(error(c, "Invalid function call. Expected '!' or '('."),
                             "Call", 0)

\* parse_branch!(self, block, self.call(block))
parse_branch_call(c) ==
    LET called(c1) ==
            IF ~c1.panic THEN [c |-> c1, ok |-> TRUE]
            ELSE [c |-> parse_branch_rewind(c1, block_curr(c), c.curr, Len(c.errors)),
                  ok |-> FALSE]
    IN  IF c.panic THEN [c |-> c, ok |-> FALSE] ELSE called(call(c))

RECURSIVE variable_expression_loop(_)
variable_expression_loop(c) ==
    CASE c.crash -> c
      [] peek(c).t = "Dot" ->
            LET field == peek(eat(c))
                c1 == eat(eat(c))
            IN  IF field.t = "Identifier"
                THEN variable_expression_loop(
                        turn("postfix", c,
                             compiler_add(intern_string(c1, field.v), "Get",
                                          Len(c1.strings))))
                ELSE error(c1, "Expected fieldname after '.'.")
      [] OTHER ->
            LET called(b) ==
                    IF b.ok THEN variable_expression_loop(turn("postfix", c, b.c)) ELSE b.c
            IN  called(parse_branch_call(c))

variable_expression(c) ==
    LET name == peek(c).v
        found(fv) ==
            IF fv.res.some
            THEN variable_expression_loop(
                    compiler_add(fv.c,
                                 IF fv.res.var.upvalue THEN "ReadUpvalue" ELSE "ReadLocal",
                                 fv.res.var.slot))
            ELSE IF find_blob(fv.c, name) # 0
                THEN parse_branch_call(constant(fv.c, VBlob(find_blob(fv.c, name)))).c
            ELSE IF find_extern_function(name) >= 0
                THEN call(constant(fv.c, VExternFunction(find_extern_function(name))))
            ELSE error(fv.c, "Using undefined variable")
    IN  found(find_variable(eat(c), name))

prefix(c) ==
    CASE peek(c).t = "Identifier" -> variable_expression(c)
      [] peek(c).t = "LeftParen" -> grouping_or_tuple(c)
      [] peek(c).t \in {"Minus", "Bang"} -> unary(c)
      [] OTHER -> value(c)

RECURSIVE infix_loop(_, _)
infix_loop(c, prec) ==
    IF ~c.crash /\ prec <= precedence(peek(c)) /\ infix_ok(peek(c))
    THEN infix_loop(infix(c), prec)
    ELSE c

parse_precedence(c, prec) ==
    infix_loop(IF prefix_ok(peek(c)) THEN prefix(c) ELSE error(c, "Invalid expression."),
               prec)

RECURSIVE function_params(_, _, _)
\* The parameter loop of Compiler::function.
function_params(c, args, return_type) ==
    CASE c.crash -> [c |-> c, args |-> args, return_type |-> return_type]
      [] peek(c).t = "Identifier" ->
            LET separated(c2) ==
                    IF peek(c2).t \notin {"Arrow", "LeftBrace"}
                    THEN expect(c2, {"Comma"}, "Expected ',' after parameter.") ELSE c2
                defined(d) == IF d.ok THEN activate(d.c, d.slot) ELSE d.c
                typed(r) ==
                    function_params(
                        turn("params", c,
                             separated(IF r.ok
                                       THEN defined(define_variable(r.c, peek(c).v, r.ty))
                                       ELSE error(r.c, "Failed to parse parameter type."))),
                        IF r.ok THEN Append(args, r.ty) ELSE args, return_type)
            IN  typed(parse_type(expect(eat(c), {"Colon"},
                                        "Expected ':' after parameter name.")))
      [] peek(c).t = "LeftBrace" -> [c |-> c, args |-> args, return_type |-> return_type]
      [] peek(c).t = "Arrow" ->
            LET typed(r) ==
                    [c |-> IF r.ok THEN r.c ELSE error(r.c, "Failed to parse return type."),
                     args |-> args, return_type |-> IF r.ok THEN r.ty ELSE return_type]
            IN  typed(parse_type(eat(c)))
      [] OTHER ->
            [c |-> error(c, "Expected '->' or more paramters in function definition."),
             args |-> args, return_type |-> return_type]

\* push_scope!, the part after $code: a pop for every variable the scope
\* declared, the last one first, and the variables are forgotten.
RECURSIVE pop_variables(_, _, _)
pop_variables(c, ss, i) ==
    IF i <= ss THEN c
    ELSE pop_variables(add_op(c, IF c_stack(c)[i].captured THEN "PopUpvalue" ELSE "Pop"),
                       ss, i - 1)

scope_begin(c) == [c EXCEPT !.frames[Len(c.frames)].scope = @ + 1]

scope_end(c, ss) ==
    IF c.crash THEN c
    ELSE [pop_variables([c EXCEPT !.frames[Len(c.frames)].scope = @ - 1], ss,
                        Len(c_stack(c)))
             EXCEPT !.frames[Len(c.frames)].stack = Take(@, ss)]

\* The end of Compiler::scope: the scope is left and the RightBrace expected.
scope_closed(c, ss) ==
    IF c.crash THEN c
    ELSE expect(scope_end(c, ss), {"RightBrace"}, "Expected '}' at end of block.")

\* One iteration of the loop of Compiler::scope: a statement and what follows
\* it.  At a RightBrace the iteration ends without an error and the loop's
\* match ends the loop.
scope_stated(c, c1) ==
    CASE c1.crash \/ peek(c1).t = "RightBrace" -> c1
      [] peek(c1).t = "Newline" -> turn("scope", c, eat(c1))
      [] OTHER -> turn("scope", c, error(c1, "Expect newline after statement."))

scope_turn(c) == scope_stated(c, self("statement", <<c>>))

RECURSIVE scope_loop(_)
scope_loop(c) ==
    IF c.crash \/ peek(c).t \in {"RightBrace", "EOF"} THEN c
    ELSE scope_loop(scope_turn(c))

scope(c) ==
    IF peek(c).t # "LeftBrace" THEN error(c, "Expected '{' at start of block.")
    ELSE scope_closed(scope_loop(scope_begin(eat(c))), Len(c_stack(c)))

\* Compiler::function.  The block of the function is prog.blocks[block_id + 2]
\* once Compiler::compile has put the main block first.
\* The end of Compiler::function, once the block has been compiled.
function_scoped(c3, block_id, ty) ==
    IF c3.crash THEN c3
    ELSE LET \* self.blocks[block_id] = function_block; add(.., Op::Constant, constant)
             stored(c6) == compiler_add(c6, "Constant", Len(c6.constants) - 1)
             typed(c5) ==
                 stored(add_constant(
                     [c5 EXCEPT !.bs = Front(@),
                                !.blocks[block_id + 1] = [c_block(c5) EXCEPT !.ty = ty]],
                     VFunction(<<>>, block_id + 2, ty)))
             \* the Constant(nil) and Return every function ends with
             returned(c4) == add_op(compiler_add(c4, "Constant", nil_value(c4)), "Return")
             \* the upvalues of the frame go to the block; the end of push_frame!
             frame_popped ==
                 [c3 EXCEPT !.bs[Len(c3.bs)].upvalues =
                                 @ \o [i \in 1..Len(c_frame(c3).upvalues) |->
                                         [slot |-> c_frame(c3).upvalues[i].outer_slot,
                                          is_up |-> c_frame(c3).upvalues[i].outer_upvalue,
                                          ty |-> c_frame(c3).upvalues[i].typ]],
                            !.frames = Front(@)]
         IN  typed(returned(frame_popped))

\* self.scope(&mut function_block)
function_parameters(p, block_id) ==
    function_scoped(scope(p.c), block_id, TFunction(p.args, p.return_type))

\* the parameter loop
function_frame_pushed(d, block_id) ==
    IF ~d.ok THEN crashed(d.c)
    ELSE function_parameters(function_params(d.c, <<>>, TVoid), block_id)

\* the temporary block and the start of push_frame!
function_named(c1, name) ==
    function_frame_pushed(
        define_variable([c1 EXCEPT !.blocks = Append(@, Block_new(name)),
                                   !.bs = Append(@, Block_new(name)),
                                   !.frames = Append(@, Frame_new)],
                        "", TUnknown),
        Len(c1.blocks))

\* the name: that of the variable being defined, if there is one
function_started(c0, top_var) ==
    IF top_var = 0 THEN crashed(c0)
    ELSE IF ~c_stack(c0)[top_var].active
         THEN function_named(activate(c0, top_var - 1), c_stack(c0)[top_var].name)
         ELSE function_named(c0, "lambda")

function_begun(c0) == function_started(c0, Len(c_stack(c0)))

function(c) == function_begun(expect(c, {"Fn"}, "Expected 'fn' at start of function."))

expression(c) ==
    IF peek(c).t = "Fn" THEN function(c) ELSE self("parse_precedence", <<c, PrecNo>>)

\* History: initialised holds, for every declaration with an initializer, the
\* name, the slot, the number of frames and the look-ups (as positions in
\* resolved) made while the initializer was compiled.
initialised(c, d, name) ==
    [c EXCEPT !.initialised = Append(@, [name |-> name, slot |-> d.slot, ok |-> d.ok,
                                         depth |-> Len(d.c.frames),
                                         from |-> Len(d.c.resolved),
                                         to |-> Len(c.resolved)])]

\* The end of a declaration: the variable is active from here on.
activated(c, d, name) ==
    IF c.crash \/ ~d.ok THEN initialised(c, d, name)
    ELSE initialised(activate(c, d.slot), d, name)

definition_statement(c, name, typ) ==
    LET expressed(c1) == compiler_add(add_constant(c1, VTy(typ)), "Define", Len(c1.constants))
        defined(d) == activated(expressed(expression(d.c)), d, name)
    IN  defined(define_variable(c, name, typ))

constant_defined(d, name) == activated(expression(d.c), d, name)

constant_statement(c, name, typ) == constant_defined(define_constant(c, name, typ), name)

assign(c) ==
    LET name == peek(c)
        o == peek(eat(c))
        read(c1, var) ==
            compiler_add(c1, IF var.upvalue THEN "ReadUpvalue" ELSE "ReadLocal", var.slot)
        assigned(c1, var) ==
            IF assign_op(o) # ""
            THEN add_op(self("expression", <<read(c1, var)>>), assign_op(o))
            ELSE self("expression", <<c1>>)
        found(fv) ==
            IF ~fv.res.some THEN error(fv.c, "Using undefined variable")
            ELSE compiler_add(
                    assigned(IF ~fv.res.var.mutable
                             THEN error(fv.c, "Cannot assign to constant") ELSE fv.c,
                             fv.res.var),
                    IF fv.res.var.upvalue THEN "AssignUpvalue" ELSE "AssignLocal",
                    fv.res.var.slot)
    IN  IF name.t # "Identifier" THEN error(eat(c), "Expected identifier in assignment")
        ELSE IF o.t \notin {"Equal", "PlusEqual", "MinusEqual", "StarEqual", "SlashEqual"}
            THEN error(eat(eat(c)), "Expected '=' in assignment")
        ELSE found(find_variable(eat(eat(c)), name.v))

RECURSIVE if_statment(_)
if_statment(c) ==
    LET \* The steps of the method, the last one first.
        else_branch(c5) ==
            CASE peek(c5).t = "If" -> if_statment(c5)
              [] peek(c5).t = "LeftBrace" -> self("scope", <<c5>>)
              [] OTHER -> error(c5, "Epected 'if' or '{' after else.")
        else_jump(c3, jump) ==
            patch_to_curr(else_branch(patch_to_curr(add_usize(c3, 0), jump)),
                          block_curr(c3))
        then_branch(c2, jump) ==
            IF peek(c2).t = "Else" THEN else_jump(add_op(eat(c2), "Jmp"), jump)
            ELSE patch_to_curr(c2, jump)
        condition(c1) == then_branch(self("scope", <<add_usize(c1, 0)>>), block_curr(c1))
    IN  condition(add_op(self("expression",
                              <<expect(c, {"If"}, "Expected 'if' at start of if-statement.")>>),
                         "JmpFalse"))

RECURSIVE pop_loop_entries(_, _, _, _, _)
\* The loop of Frame::pop_loop over the recorded (addr, stacksize, op) entries.
pop_loop_entries(c, entries, stacktarget, start, end) ==
    LET entry(e) ==
            IF e.stacksize < stacktarget THEN crashed(c)
            ELSE pop_loop_entries(
                    patch(patch(c, IF e.op = "Continue" THEN start ELSE end, e.addr),
                          e.stacksize - stacktarget, e.addr + 8),
                    Tail(entries), stacktarget, start, end)
    IN  IF Len(entries) = 0 \/ c.crash THEN c ELSE entry(Head(entries))

\* Frame::push_loop, Frame::pop_loop, Frame::add_continue, Frame::add_break
push_loop(c) == [c EXCEPT !.frames[Len(c.frames)].loops = Append(@, <<>>)]

pop_loop(c, stacktarget, start, end) ==
    IF Len(c_frame(c).loops) = 0 THEN crashed(c)
    ELSE pop_loop_entries([c EXCEPT !.frames[Len(c.frames)].loops = Front(@)],
                          Last(c_frame(c).loops), stacktarget, start, end)

add_loop_op(c, addr, stacksize, o) ==
    [c EXCEPT !.frames[Len(c.frames)].loops[Len(c_frame(c).loops)] =
        Append(@, [addr |-> addr, stacksize |-> stacksize, op |-> o])]

add_continue(c, addr, stacksize) == add_loop_op(c, addr + 1, stacksize, "Continue")

add_break(c, addr, stacksize) == add_loop_op(c, addr, stacksize, "Break")

for_loop(c) ==
    LET \* The steps of the method, the last one first; each takes the compiler
        \* as the step before it left it and the addresses noted so far.
        \* frame.pop_loop and the end of the outer push_scope!
        patched(c11, ss, inc) ==
            scope_end(pop_loop(c11, Len(c_stack(c11)), inc, block_curr(c11)), ss)
        \* the body, the jump back to the increment, the way out
        incremented(c8, ss, cond_out, cond_cont, inc) ==
            patched(patch_to_curr(compiler_add(self("scope", <<patch_to_curr(c8, cond_cont)>>),
                                               "Jmp", inc),
                                  cond_out),
                    ss, inc)
        \* the increment in its own scope and the jump back to the condition
        separated(c6, ss, cond, cond_out, cond_cont) ==
            incremented(compiler_add(scope_end(self("statement", <<scope_begin(c6)>>),
                                               Len(c_stack(c6))),
                                     "Jmp", cond),
                        ss, cond_out, cond_cont, block_curr(c6))
        jumped(c5, ss, cond, cond_out) ==
            separated(expect(add_usize(c5, 0), {"Comma"},
                             "Expect ',' between initalizer and loop expression."),
                      ss, cond, cond_out, block_curr(c5))
        tested(c4, ss, cond) ==
            jumped(add_op(add_usize(c4, 0), "Jmp"), ss, cond, block_curr(c4))
        \* the condition
        initialized(c3, ss) ==
            tested(add_op(self("expression", <<c3>>), "JmpFalse"), ss, block_curr(c3))
        \* the definition
        definition(c1) ==
            CASE peek(c1).t = "Identifier" /\ peek_at(c1, 1).t = "ColonEqual" ->
                    definition_statement(eat(eat(c1)), peek(c1).v, TUnknown)
              [] peek(c1).t = "Comma" -> c1
              [] OTHER -> error(c1, "Expected definition at start of for-loop.")
        started(c0) ==
            initialized(expect(definition(push_loop(scope_begin(c0))), {"Comma"},
                               "Expect ',' between initalizer and loop expression."),
                        Len(c_stack(c0)))
    IN  started(expect(c, {"For"}, "Expected 'for' at start of for-loop."))

RECURSIVE blob_statement_loop(_, _)
\* The loop of Compiler::blob_statement; Blob::add_field refuses a second field
\* of the same name.
blob_statement_loop(c, blob) ==
    CASE c.crash \/ peek(c).t \in {"EOF", "RightBrace"} -> [c |-> c, blob |-> blob]
      [] peek(c).t = "Newline" -> blob_statement_loop(turn("blob", c, eat(c)), blob)
      [] peek(c).t # "Identifier" ->
            blob_statement_loop(
                turn("blob", c, error(eat(c), "Expected identifier for field.")), blob)
      [] OTHER ->
            LET name == peek(c).v
                typed(r) ==
                    IF ~r.ok
                    THEN blob_statement_loop(
                            turn("blob", c, error(r.c, "Failed to parse blob-field type.")),
                            blob)
                    ELSE IF \E i \in 1..Len(blob.fields) : blob.fields[i].name = name
                        THEN blob_statement_loop(
                                turn("blob", c, error(r.c, "A field is defined twice")), blob)
                    ELSE blob_statement_loop(turn("blob", c, r.c),
                            [blob EXCEPT !.fields = Append(@, [name |-> name, ty |-> r.ty])])
            IN  typed(parse_type(expect(eat(c), {"Colon"}, "Expected ':' after field name.")))

blob_statement(c) ==
    LET fields(l) ==
            [expect(l.c, {"RightBrace"}, "Expected '}' after 'blob' body. AKA '}'.")
                EXCEPT !.blobs = Append(@, l.blob)]
        named(c0) ==
            IF peek(c0).t # "Identifier"
            THEN error(eat(c0), "Expected identifier after 'blob'.")
            ELSE fields(blob_statement_loop(
                            expect(eat(c0), {"LeftBrace"}, "Expected 'blob' body. AKA '{'."),
                            [name |-> peek(c0).v, fields |-> <<>>]))
    IN  named(expect(c, {"Blob"}, "Expected blob when declaring a blob"))

RECURSIVE blob_field_loop(_)
blob_field_loop(c) ==
    CASE c.crash -> c
      [] peek(c).t = "Dot" ->
            LET name == peek(eat(c))
                field(c1, n) ==
                    CASE peek(c1).t = "Equal" ->
                            compiler_add(self("expression", <<eat(c1)>>), "Set", n)
                      [] assign_op(peek(c1)) # "" ->
                            compiler_add(
                                add_op(self("expression",
                                            <<eat(compiler_add(add_op(c1, "Copy"), "Get", n))>>),
                                       assign_op(peek(c1))),
                                "Set", n)
                      [] OTHER -> blob_field_loop(compiler_add(c1, "Get", n))
                interned(c1) == field(c1, Len(c1.strings) - 1)
            IN  IF name.t # "Identifier"
                THEN error(eat(eat(c)), "Expected fieldname after '.'.")
                ELSE interned(intern_string(eat(eat(c)), name.v))
      [] peek(c).t = "Newline" -> c
      [] OTHER ->
            LET called(b) ==
                    IF b.ok THEN blob_field_loop(b.c)
                    ELSE error(b.c, "Unexpected token when parsing blob-field.")
            IN  called(parse_branch_call(c))

blob_field(c) ==
    LET found(fv) ==
            IF fv.res.some
            THEN blob_field_loop(
                    compiler_add(fv.c,
                                 IF fv.res.var.upvalue THEN "ReadUpvalue" ELSE "ReadLocal",
                                 fv.res.var.slot))
            ELSE error(fv.c, "Cannot find variable")
    IN  found(find_variable(eat(c), peek(c).v))

\* parse_branch!(self, block, [self.blob_field(block), self.expression(block)])
blob_field_or_expression(c) ==
    LET second(c1, r1) ==
            IF r1.crash THEN r1
            ELSE parse_branch_second(c, c1, self("expression", <<r1>>))
        first(c1) ==
            IF ~c1.panic THEN c1
            ELSE second(c1, parse_branch_rewind(c1, block_curr(c), c.curr, Len(c.errors)))
    IN  IF c.panic THEN c ELSE first(blob_field(c))

\* Compiler::statement.  History: where it returns, marks records the block
\* under compilation, the address the block has reached and the number of
\* variables of the compiler's frame, with the token the statement began with
\* and the address the block was at then.
statement(c0) ==
    LET marked(c, from) ==
            IF c.crash THEN c
            ELSE [c EXCEPT !.marks = Append(@, [block |-> c_block(c).name,
                                                ip |-> block_curr(c),
                                                n |-> Len(c_stack(c)),
                                                form |-> peek(from).t,
                                                at |-> block_curr(from)])]
        cleared(c) ==
            LET t1 == peek(c).t
                t2 == peek_at(c, 1).t
                name == peek(c).v
                typed(r) ==
                    IF r.ok
                    THEN definition_statement(expect(r.c, {"Equal"}, "Expected assignment."),
                                              name, r.ty)
                    ELSE error(r.c, "Expected type found")
                in_loop(c1, addr, o) ==
                    IF Len(c_frame(c1).loops) = 0
                    THEN error(c1, IF o = "Break" THEN "Cannot place 'break' outside of loop."
                                   ELSE "Cannot place 'continue' outside of loop.")
                    ELSE IF o = "Break" THEN add_break(c1, addr, Len(c_stack(c1)))
                    ELSE add_continue(c1, addr, Len(c_stack(c1)))
            IN  CASE t1 = "Print" -> add_op(self("expression", <<eat(c)>>), "Print")
                  [] t1 = "Identifier" /\ t2 \in {"Equal", "PlusEqual", "MinusEqual",
                                                  "SlashEqual", "StarEqual"} -> assign(c)
                  [] t1 = "Identifier" /\ t2 = "Dot" -> blob_field_or_expression(c)
                  [] t1 = "Identifier" /\ t2 = "Colon" -> typed(parse_type(eat(eat(c))))
                  [] t1 = "Yield" -> add_op(eat(c), "Yield")
                  [] t1 = "Identifier" /\ t2 = "ColonEqual" ->
                        definition_statement(eat(eat(c)), name, TUnknown)
                  [] t1 = "Identifier" /\ t2 = "ColonColon" ->
                        constant_statement(eat(eat(c)), name, TUnknown)
                  [] t1 = "Blob" /\ t2 = "Identifier" -> blob_statement(c)
                  [] t1 = "If" -> if_statment(c)
                  [] t1 = "For" -> for_loop(c)
                  [] t1 = "Break" ->
                        in_loop(add_usize(add_usize(eat(c), 0), 0), block_curr(c), "Break")
                  [] t1 = "Continue" ->
                        in_loop(add_usize(add_usize(add_op(eat(c), "JmpNPop"), 0), 0),
                                block_curr(c) + 1, "Continue")
                  [] t1 = "Ret" -> add_op(self("expression", <<eat(c)>>), "Return")
                  [] t1 = "Unreachable" -> add_op(eat(c), "Unreachable")
                  [] t1 = "LeftBrace" -> self("scope", <<c>>)
                  [] t1 = "Newline" -> c
                  [] OTHER -> add_op(self("expression", <<c>>), "Pop")
        started(c) == marked(cleared(c), c)
    IN  started(clear_panic([c0 EXCEPT !.statements = @ + 1]))

\* The dispatch of self: the method of that name on the arguments.
self(method, args) ==
    CASE method = "expression" -> expression(args[1])
      [] method = "parse_precedence" -> parse_precedence(args[1], args[2])
      [] method = "statement" -> statement(args[1])
      [] method = "scope" -> scope(args[1])

RECURSIVE compile_loop(_)
\* The loop of Compiler::compile over the statements of the file.
compile_loop(c) ==
    IF c.crash \/ peek(c).t = "EOF" THEN c
    ELSE compile_loop(turn("compile", c,
                           expect(self("statement", <<c>>), {"Newline", "EOF"},
                                  "Expect newline or EOF after expression.")))

\* Compiler::compile: Ok(prog) if no error is left in errors, Err(errors) otherwise.
compile(tokens) ==
    LET returned(c2) ==
            [blocks |-> <<[c_block(c2) EXCEPT !.ty = TFunction(<<>>, TVoid)]>> \o c2.blocks,
             blobs |-> c2.blobs, functions |-> ExternFunctions,
             constants |-> c2.constants, strings |-> c2.strings]
        compiled_to(c1) ==
            [panic |-> c1.crash,
             ok |-> ~c1.crash /\ Len(c1.errors) = 0,
             errors |-> c1.errors,
             recorded |-> c1.recorded,
             marks |-> c1.marks,
             branches |-> c1.branches,
             windows |-> c1.windows,
             resolved |-> c1.resolved,
             declared |-> c1.declared,
             initialised |-> c1.initialised,
             turns |-> c1.turns,
             reported |-> c1.reported + (IF c1.panic /\ ~c1.crash THEN 1 ELSE 0),
             prog |-> returned(add_op(compiler_add(c1, "Constant", nil_value(c1)),
                                      "Return"))]
    IN  compiled_to(compile_loop(
            [Compiler_new(tokens) EXCEPT
                !.frames[1].stack = <<Variable("/main/", TVoid, 0, 0, TRUE)>>,
                !.bs = <<Block_new("/preamble")>>]))

(***************************************************************************)
(* Source files, as the token sequences the tokenizer hands the compiler.  *)
(* The sylt text of each is in the comment above it.                       *)
(***************************************************************************)
\* A tuple indexed by its length.
\*   (1, 2)[2]
SrcIndex ==
    << Tok("LeftParen"), IntTok(1), Tok("Comma"), IntTok(2), Tok("RightParen"),
       Tok("LeftBracket"), IntTok(2), Tok("RightBracket"), NL >>

\* A division by a literal zero.
\*   1 / 0
SrcDiv ==
    << IntTok(1), Tok("Slash"), IntTok(0), NL >>

\* Calls with arguments, nested.
\*   f :: fn a: int, b: int {
\*       a = a + b
\*   }
\*   g :: fn a: int {
\*       f(a, 2)
\*       f(1, a)
\*   }
\*   g(3)
\*   f(1, 2)
SrcCalls ==
    << Id("f"), Tok("ColonColon"), Tok("Fn"), Id("a"), Tok("Colon"), Id("int"),
       Tok("Comma"), Id("b"), Tok("Colon"), Id("int"), Tok("LeftBrace"), NL, Id("a"),
       Tok("Equal"), Id("a"), Tok("Plus"), Id("b"), NL, Tok("RightBrace"), NL, Id("g"),
       Tok("ColonColon"), Tok("Fn"), Id("a"), Tok("Colon"), Id("int"), Tok("LeftBrace"),
       NL, Id("f"), Tok("LeftParen"), Id("a"), Tok("Comma"), IntTok(2),
       Tok("RightParen"), NL, Id("f"), Tok("LeftParen"), IntTok(1), Tok("Comma"),
       Id("a"), Tok("RightParen"), NL, Tok("RightBrace"), NL, Id("g"), Tok("LeftParen"),
       IntTok(3), Tok("RightParen"), NL, Id("f"), Tok("LeftParen"), IntTok(1),
       Tok("Comma"), IntTok(2), Tok("RightParen"), NL >>

\* The recursive factorial.
\*   factorial :: fn n: int -> int {
\*       if n <= 1 {
\*           ret 1
\*       }
\*       ret n * factorial(n - 1)
\*   }
\*   factorial(5) <=> 120
SrcFactorial ==
    << Id("factorial"), Tok("ColonColon"), Tok("Fn"), Id("n"), Tok("Colon"), Id("int"),
       Tok("Arrow"), Id("int"), Tok("LeftBrace"), NL, Tok("If"), Id("n"),
       Tok("LessEqual"), IntTok(1), Tok("LeftBrace"), NL, Tok("Ret"), IntTok(1), NL,
       Tok("RightBrace"), NL, Tok("Ret"), Id("n"), Tok("Star"), Id("factorial"),
       Tok("LeftParen"), Id("n"), Tok("Minus"), IntTok(1), Tok("RightParen"), NL,
       Tok("RightBrace"), NL, Id("factorial"), Tok("LeftParen"), IntTok(5),
       Tok("RightParen"), Tok("AssertEqual"), IntTok(120), NL >>

\* A counter closure over a local declared with `:=`.
\*   f :: fn -> fn -> int {
\*       x := 0
\*       g :: fn -> int {
\*           x += 1
\*           ret x
\*       }
\*       ret g
\*   }
\*   a := f()
\*   b := f()
\*   a() <=> 1
\*   a() <=> 2
\*   b() <=> 1
SrcCounter ==
    << Id("f"), Tok("ColonColon"), Tok("Fn"), Tok("Arrow"), Tok("Fn"), Tok("Arrow"),
       Id("int"), Tok("LeftBrace"), NL, Id("x"), Tok("ColonEqual"), IntTok(0), NL,
       Id("g"), Tok("ColonColon"), Tok("Fn"), Tok("Arrow"), Id("int"), Tok("LeftBrace"),
       NL, Id("x"), Tok("PlusEqual"), IntTok(1), NL, Tok("Ret"), Id("x"), NL,
       Tok("RightBrace"), NL, Tok("Ret"), Id("g"), NL, Tok("RightBrace"), NL, Id("a"),
       Tok("ColonEqual"), Id("f"), Tok("LeftParen"), Tok("RightParen"), NL, Id("b"),
       Tok("ColonEqual"), Id("f"), Tok("LeftParen"), Tok("RightParen"), NL, Id("a"),
       Tok("LeftParen"), Tok("RightParen"), Tok("AssertEqual"), IntTok(1), NL, Id("a"),
       Tok("LeftParen"), Tok("RightParen"), Tok("AssertEqual"), IntTok(2), NL, Id("b"),
       Tok("LeftParen"), Tok("RightParen"), Tok("AssertEqual"), IntTok(1), NL >>

\* The same counter over a parameter, bound with `::`.
\*   f :: fn x: int -> fn -> int {
\*       g :: fn -> int {
\*           x += 1
\*           ret x
\*       }
\*       ret g
\*   }
\*   a :: f(0)
\*   b :: f(0)
\*   a() <=> 1
\*   a() <=> 2
\*   b() <=> 1
SrcCounterParam ==
    << Id("f"), Tok("ColonColon"), Tok("Fn"), Id("x"), Tok("Colon"), Id("int"),
       Tok("Arrow"), Tok("Fn"), Tok("Arrow"), Id("int"), Tok("LeftBrace"), NL, Id("g"),
       Tok("ColonColon"), Tok("Fn"), Tok("Arrow"), Id("int"), Tok("LeftBrace"), NL,
       Id("x"), Tok("PlusEqual"), IntTok(1), NL, Tok("Ret"), Id("x"), NL,
       Tok("RightBrace"), NL, Tok("Ret"), Id("g"), NL, Tok("RightBrace"), NL, Id("a"),
       Tok("ColonColon"), Id("f"), Tok("LeftParen"), IntTok(0), Tok("RightParen"), NL,
       Id("b"), Tok("ColonColon"), Id("f"), Tok("LeftParen"), IntTok(0),
       Tok("RightParen"), NL, Id("a"), Tok("LeftParen"), Tok("RightParen"),
       Tok("AssertEqual"), IntTok(1), NL, Id("a"), Tok("LeftParen"), Tok("RightParen"),
       Tok("AssertEqual"), IntTok(2), NL, Id("b"), Tok("LeftParen"), Tok("RightParen"),
       Tok("AssertEqual"), IntTok(1), NL >>

\* Two closures over one parameter, used before and after its slot is closed.
\*   outer :: fn inc: fn, get: fn, {
\*       f :: fn x: int {
\*           g :: fn {
\*               x = x + 1
\*           }
\*           h :: fn {
\*               x <=> 2
\*           }
\*           g()
\*           h()
\*           x <=> 2
\*           x = 1
\*           inc = g
\*           get = h
\*       }
\*       f(1)
\*       inc()
\*       get()
\*   }
\*   outer(fn {}, fn {})
SrcShared ==
    << Id("outer"), Tok("ColonColon"), Tok("Fn"), Id("inc"), Tok("Colon"), Tok("Fn"),
       Tok("Comma"), Id("get"), Tok("Colon"), Tok("Fn"), Tok("Comma"), Tok("LeftBrace"),
       NL, Id("f"), Tok("ColonColon"), Tok("Fn"), Id("x"), Tok("Colon"), Id("int"),
       Tok("LeftBrace"), NL, Id("g"), Tok("ColonColon"), Tok("Fn"), Tok("LeftBrace"),
       NL, Id("x"), Tok("Equal"), Id("x"), Tok("Plus"), IntTok(1), NL,
       Tok("RightBrace"), NL, Id("h"), Tok("ColonColon"), Tok("Fn"), Tok("LeftBrace"),
       NL, Id("x"), Tok("AssertEqual"), IntTok(2), NL, Tok("RightBrace"), NL, Id("g"),
       Tok("LeftParen"), Tok("RightParen"), NL, Id("h"), Tok("LeftParen"),
       Tok("RightParen"), NL, Id("x"), Tok("AssertEqual"), IntTok(2), NL, Id("x"),
       Tok("Equal"), IntTok(1), NL, Id("inc"), Tok("Equal"), Id("g"), NL, Id("get"),
       Tok("Equal"), Id("h"), NL, Tok("RightBrace"), NL, Id("f"), Tok("LeftParen"),
       IntTok(1), Tok("RightParen"), NL, Id("inc"), Tok("LeftParen"), Tok("RightParen"),
       NL, Id("get"), Tok("LeftParen"), Tok("RightParen"), NL, Tok("RightBrace"), NL,
       Id("outer"), Tok("LeftParen"), Tok("Fn"), Tok("LeftBrace"), Tok("RightBrace"),
       Tok("Comma"), Tok("Fn"), Tok("LeftBrace"), Tok("RightBrace"), Tok("RightParen"),
       NL >>

\* Two yields in a row.
\*   yield
\*   yield
\*   1 <=> 1
SrcYieldYield ==
    << Tok("Yield"), NL, Tok("Yield"), NL, IntTok(1), Tok("AssertEqual"), IntTok(1), NL >>

\* A yield followed by an op with an operand.
\*   yield
\*   1 <=> 1
SrcYield ==
    << Tok("Yield"), NL, IntTok(1), Tok("AssertEqual"), IntTok(1), NL >>

\* A line with a token after its expression, then a read of a variable.
\*   x :: 1
\*   x 1
\*   x
SrcWipe ==
    << Id("x"), Tok("ColonColon"), IntTok(1), NL, Id("x"), IntTok(1), NL, Id("x"), NL >>

\* A failing assertion followed by more statements.
\*   1 <=> 2
\*   1 <=> 1
SrcAssertFalse ==
    << IntTok(1), Tok("AssertEqual"), IntTok(2), NL, IntTok(1), Tok("AssertEqual"),
       IntTok(1), NL >>

\* The declaration `a :: 1`, `a := 1` or `a : int = 1`.
DeclTokens(decl) ==
    CASE decl = "ColonColon" -> <<Id("a"), Tok("ColonColon"), IntTok(1), NL>>
      [] decl = "ColonEqual" -> <<Id("a"), Tok("ColonEqual"), IntTok(1), NL>>
      [] OTHER -> <<Id("a"), Tok("Colon"), Id("int"), Tok("Equal"), IntTok(1), NL>>

\* The body wrapped in depth nested functions: `f1 :: fn {`, body, `}`.
FnNames == <<"f1", "f2", "f3", "f4">>
RECURSIVE Nested(_, _)
Nested(body, depth) ==
    IF depth = 0 THEN body
    ELSE <<Id(FnNames[depth]), Tok("ColonColon"), Tok("Fn"), Tok("LeftBrace"), NL>>
         \o Nested(body, depth - 1) \o <<Tok("RightBrace"), NL>>

\* A declaration of a followed by the assignment `a o 2`, o one of = += -= *= /=,
\* in the same frame (depth 0) or inside one or two nested functions.
SrcAssign(decl, o, depth) ==
    DeclTokens(decl) \o Nested(<<Id("a"), Tok(o), IntTok(2), NL>>, depth)

MaxDepth == 2
Decls == {"ColonColon", "ColonEqual", "Typed"}
AssignOps == {"Equal", "PlusEqual", "MinusEqual", "StarEqual", "SlashEqual"}

\* test uncallable_type (vm.rs): a call of a parameter of the type ty that is
\* no function, with n arguments.
\*   f := fn i: int {
\*       i(1, 1)
\*   }
UncallableTypes == {"int", "bool", "str"}
MaxArgs == 2
RECURSIVE Arguments(_)
Arguments(n) ==
    IF n = 0 THEN <<>>
    ELSE IF n = 1 THEN <<IntTok(1)>>
    ELSE <<IntTok(1), Tok("Comma")>> \o Arguments(n - 1)
SrcUncallable(ty, n) ==
    << Id("f"), Tok("ColonEqual"), Tok("Fn"), Id("i"), Tok("Colon"), Id(ty),
       Tok("LeftBrace"), NL, Id("i"), Tok("LeftParen") >> \o Arguments(n)
        \o << Tok("RightParen"), NL, Tok("RightBrace"), NL >>

\* test wrong_params (vm.rs).
\*   f : fn -> int = fn a: int -> int {}
SrcWrongParams ==
    << Id("f"), Tok("Colon"), Tok("Fn"), Tok("Arrow"), Id("int"), Tok("Equal"),
       Tok("Fn"), Id("a"), Tok("Colon"), Id("int"), Tok("Arrow"), Id("int"),
       Tok("LeftBrace"), Tok("RightBrace"), NL >>

\* test wrong_ret (vm.rs).
\*   f : fn -> int = fn {}
SrcWrongRet ==
    << Id("f"), Tok("Colon"), Tok("Fn"), Tok("Arrow"), Id("int"), Tok("Equal"),
       Tok("Fn"), Tok("LeftBrace"), Tok("RightBrace"), NL >>

\* Two ops in a row that fail the typecheck: Add on (int, bool), Not on its nil.
\*   !(1 + true)
SrcNotSum ==
    << Tok("Bang"), Tok("LeftParen"), IntTok(1), Tok("Plus"), BoolTok(TRUE),
       Tok("RightParen"), NL >>

\* Calls of external functions.
\*   len((1, 2))
\*   dbg(1)
SrcExtern ==
    << Id("len"), Tok("LeftParen"), Tok("LeftParen"), IntTok(1), Tok("Comma"),
       IntTok(2), Tok("RightParen"), Tok("RightParen"), NL, Id("dbg"),
       Tok("LeftParen"), IntTok(1), Tok("RightParen"), NL >>

\* A field read used as a statement, between two definitions.
\*   blob A {
\*       x: int
\*   }
\*   a := A()
\*   a.x
\*   b := true
\*   b
SrcFieldRead ==
    << Tok("Blob"), Id("A"), Tok("LeftBrace"), NL, Id("x"), Tok("Colon"), Id("int"), NL,
       Tok("RightBrace"), NL, Id("a"), Tok("ColonEqual"), Id("A"), Tok("LeftParen"),
       Tok("RightParen"), NL, Id("a"), Tok("Dot"), Id("x"), NL, Id("b"),
       Tok("ColonEqual"), BoolTok(TRUE), NL, Id("b"), NL >>

\* Field assignments, plain and compound.
\*   blob A {
\*       x: int
\*   }
\*   a := A()
\*   a.x = 1
\*   a.x += 2
\*   b := true
\*   b
SrcFieldAssign ==
    << Tok("Blob"), Id("A"), Tok("LeftBrace"), NL, Id("x"), Tok("Colon"), Id("int"), NL,
       Tok("RightBrace"), NL, Id("a"), Tok("ColonEqual"), Id("A"), Tok("LeftParen"),
       Tok("RightParen"), NL, Id("a"), Tok("Dot"), Id("x"), Tok("Equal"), IntTok(1), NL,
       Id("a"), Tok("Dot"), Id("x"), Tok("PlusEqual"), IntTok(2), NL, Id("b"),
       Tok("ColonEqual"), BoolTok(TRUE), NL, Id("b"), NL >>

\* An if with an else, both declaring or assigning, and a print.
\*   a := 1
\*   if a < 2 {
\*       b := 2
\*       print b
\*   } else {
\*       a = 3
\*   }
\*   c := true
\*   c
SrcIf ==
    << Id("a"), Tok("ColonEqual"), IntTok(1), NL, Tok("If"), Id("a"), Tok("Less"),
       IntTok(2), Tok("LeftBrace"), NL, Id("b"), Tok("ColonEqual"), IntTok(2), NL,
       Tok("Print"), Id("b"), NL, Tok("RightBrace"), Tok("Else"), Tok("LeftBrace"), NL,
       Id("a"), Tok("Equal"), IntTok(3), NL, Tok("RightBrace"), NL, Id("c"),
       Tok("ColonEqual"), BoolTok(TRUE), NL, Id("c"), NL >>

\* A for loop that declares its counter.
\*   s := 0
\*   for i := 0, i < 2, i = i + 1 {
\*       s = s + i
\*   }
\*   t := true
\*   t
SrcFor ==
    << Id("s"), Tok("ColonEqual"), IntTok(0), NL, Tok("For"), Id("i"),
       Tok("ColonEqual"), IntTok(0), Tok("Comma"), Id("i"), Tok("Less"), IntTok(2),
       Tok("Comma"), Id("i"), Tok("Equal"), Id("i"), Tok("Plus"), IntTok(1),
       Tok("LeftBrace"), NL, Id("s"), Tok("Equal"), Id("s"), Tok("Plus"), Id("i"), NL,
       Tok("RightBrace"), NL, Id("t"), Tok("ColonEqual"), BoolTok(TRUE), NL, Id("t"), NL >>

\* A captured local whose capturing function literal is on a path not taken.
\*   {
\*       x :: 1
\*       if false {
\*           f :: fn {
\*               x
\*           }
\*       }
\*   }
SrcUnevaluated ==
    << Tok("LeftBrace"), NL, Id("x"), Tok("ColonColon"), IntTok(1), NL, Tok("If"),
       BoolTok(FALSE), Tok("LeftBrace"), NL, Id("f"), Tok("ColonColon"), Tok("Fn"),
       Tok("LeftBrace"), NL, Id("x"), NL, Tok("RightBrace"), NL, Tok("RightBrace"), NL,
       Tok("RightBrace"), NL >>

\* A captured local of a scope, read through the closure before the scope ends.
\*   {
\*       x :: 1
\*       f :: fn {
\*           x
\*       }
\*       f()
\*   }
SrcCaptured ==
    << Tok("LeftBrace"), NL, Id("x"), Tok("ColonColon"), IntTok(1), NL, Id("f"),
       Tok("ColonColon"), Tok("Fn"), Tok("LeftBrace"), NL, Id("x"), NL,
       Tok("RightBrace"), NL, Id("f"), Tok("LeftParen"), Tok("RightParen"), NL,
       Tok("RightBrace"), NL >>

\* A for loop whose body declares a local and leaves by continue and by break.
\*   for i := 0, i < 3, i = i + 1 {
\*       j := i
\*       if j == 1 {
\*           continue
\*       }
\*       if j == 2 {
\*           break
\*       }
\*   }
SrcLoop ==
    << Tok("For"), Id("i"), Tok("ColonEqual"), IntTok(0), Tok("Comma"), Id("i"),
       Tok("Less"), IntTok(3), Tok("Comma"), Id("i"), Tok("Equal"), Id("i"),
       Tok("Plus"), IntTok(1), Tok("LeftBrace"), NL, Id("j"), Tok("ColonEqual"),
       Id("i"), NL, Tok("If"), Id("j"), Tok("EqualEqual"), IntTok(1), Tok("LeftBrace"),
       NL, Tok("Continue"), NL, Tok("RightBrace"), NL, Tok("If"), Id("j"),
       Tok("EqualEqual"), IntTok(2), Tok("LeftBrace"), NL, Tok("Break"), NL,
       Tok("RightBrace"), NL, Tok("RightBrace"), NL >>

\* A function with a parameter of a blob type, called on an instance.
\*   blob A {
\*       x: int
\*   }
\*   f :: fn a: A {
\*       a.x = 1
\*   }
\*   f(A())
SrcBlobParam ==
    << Tok("Blob"), Id("A"), Tok("LeftBrace"), NL, Id("x"), Tok("Colon"), Id("int"), NL,
       Tok("RightBrace"), NL, Id("f"), Tok("ColonColon"), Tok("Fn"), Id("a"),
       Tok("Colon"), Id("A"), Tok("LeftBrace"), NL, Id("a"), Tok("Dot"), Id("x"),
       Tok("Equal"), IntTok(1), NL, Tok("RightBrace"), NL, Id("f"), Tok("LeftParen"),
       Id("A"), Tok("LeftParen"), Tok("RightParen"), Tok("RightParen"), NL >>

\* A blob called with an argument.
\*   blob A {
\*       x: int
\*   }
\*   A(1)
SrcBlobArgs ==
    << Tok("Blob"), Id("A"), Tok("LeftBrace"), NL, Id("x"), Tok("Colon"), Id("int"), NL,
       Tok("RightBrace"), NL, Id("A"), Tok("LeftParen"), IntTok(1), Tok("RightParen"),
       NL >>

\* A statement that fails as a field access and as an expression.
\*   a :: 1
\*   a.1
SrcTwoErrors ==
    << Id("a"), Tok("ColonColon"), IntTok(1), NL, Id("a"), Tok("Dot"), IntTok(1), NL >>

\* A local read twice from a function two frames further in.
\*   x :: 1
\*   f :: fn {
\*     g :: fn {
\*       x + x
\*     }
\*     g()
\*   }
\*   f()
SrcNested ==
    << Id("x"), Tok("ColonColon"), IntTok(1), NL, Id("f"), Tok("ColonColon"), Tok("Fn"),
       Tok("LeftBrace"), NL, Id("g"), Tok("ColonColon"), Tok("Fn"), Tok("LeftBrace"),
       NL, Id("x"), Tok("Plus"), Id("x"), NL, Tok("RightBrace"), NL, Id("g"),
       Tok("LeftParen"), Tok("RightParen"), NL, Tok("RightBrace"), NL, Id("f"),
       Tok("LeftParen"), Tok("RightParen"), NL >>

\* A parameter named like a top-level variable, and a local redeclared in an inner scope.
\*   a :: 1
\*   {
\*     a :: 2
\*   }
\*   f :: fn a: int {
\*   }
SrcParamShadow ==
    << Id("a"), Tok("ColonColon"), IntTok(1), NL, Tok("LeftBrace"), NL, Id("a"),
       Tok("ColonColon"), IntTok(2), NL, Tok("RightBrace"), NL, Id("f"),
       Tok("ColonColon"), Tok("Fn"), Id("a"), Tok("Colon"), Id("int"), Tok("LeftBrace"),
       NL, Tok("RightBrace"), NL >>

\* A variable declared twice in one scope.
\*   a :: 1
\*   a :: 2
SrcRedeclared ==
    << Id("a"), Tok("ColonColon"), IntTok(1), NL, Id("a"), Tok("ColonColon"), IntTok(2),
       NL >>

\* An initializer that reads the variable it declares after a function literal.
\*   x :: (fn {
\*   }, x)
SrcSelfRead ==
    << Id("x"), Tok("ColonColon"), Tok("LeftParen"), Tok("Fn"), Tok("LeftBrace"), NL,
       Tok("RightBrace"), Tok("Comma"), Id("x"), Tok("RightParen"), NL >>

\* Initializers that read the variable they declare, with and without an outer one.
\*   x :: 1
\*   {
\*     x :: x + 1
\*     y :: y
\*   }
SrcSelfUndefined ==
    << Id("x"), Tok("ColonColon"), IntTok(1), NL, Tok("LeftBrace"), NL, Id("x"),
       Tok("ColonColon"), Id("x"), Tok("Plus"), IntTok(1), NL, Id("y"),
       Tok("ColonColon"), Id("y"), NL, Tok("RightBrace"), NL >>



\* Declarations whose initializer is an up-value of unknown type.
\*   a := 1
\*   f :: fn {
\*     g :: fn {
\*       c := a
\*       d: int = 1
\*       b: int = a
\*     }
\*     e: int = true
\*   }
SrcDefineUnknown ==
    << Id("a"), Tok("ColonEqual"), IntTok(1), NL, Id("f"), Tok("ColonColon"), Tok("Fn"),
       Tok("LeftBrace"), NL, Id("g"), Tok("ColonColon"), Tok("Fn"), Tok("LeftBrace"),
       NL, Id("c"), Tok("ColonEqual"), Id("a"), NL, Id("d"), Tok("Colon"), Id("int"),
       Tok("Equal"), IntTok(1), NL, Id("b"), Tok("Colon"), Id("int"), Tok("Equal"),
       Id("a"), NL, Tok("RightBrace"), NL, Id("e"), Tok("Colon"), Id("int"),
       Tok("Equal"), BoolTok(TRUE), NL, Tok("RightBrace"), NL >>

\* A yield inside a scope whose local a closure has captured.
\*   {
\*     x :: 1
\*     f :: fn {
\*       x
\*     }
\*     yield
\*   }
SrcYieldOpen ==
    << Tok("LeftBrace"), NL, Id("x"), Tok("ColonColon"), IntTok(1), NL, Id("f"),
       Tok("ColonColon"), Tok("Fn"), Tok("LeftBrace"), NL, Id("x"), NL,
       Tok("RightBrace"), NL, Tok("Yield"), NL, Tok("RightBrace"), NL >>

\* A loop whose condition is no bool.
\*   for i := 0, 1, i = i + 1 {
\*   }
SrcForInt ==
    << Tok("For"), Id("i"), Tok("ColonEqual"), IntTok(0), Tok("Comma"), IntTok(1),
       Tok("Comma"), Id("i"), Tok("Equal"), Id("i"), Tok("Plus"), IntTok(1),
       Tok("LeftBrace"), NL, Tok("RightBrace"), NL >>

\* Files that are no programs: a token no statement starts with, at top level
\* and in a scope; a call, a tuple, a blob, a parameter list and a field
\* access that the end of the file cuts short.
\*   1: )          2: {          3: ) )      4: ( (      5: f :: fn {
\*      1             )                                     }
\*                    1                                     f(1,
\*                    }
\*   6: (1,        7: blob A {   8: blob A { 9: f :: fn a: int, ) {
\*                    x             1 2
\*                                 }
\*   10: a :: 1    11: f :: fn { 12: {
\*       a.b.          }             1 2
\*                     f! 1, )       ) 3
\*                                 }
\*   13: 1 2 3 4   14: a :: 1               15: f :: fn a, b: int {
\*       5             (1 +, , a.b.c)           }
SrcJunk ==
    << << Tok("RightParen"), NL, IntTok(1), NL >>,
       << Tok("LeftBrace"), NL, Tok("RightParen"), NL, IntTok(1), NL, Tok("RightBrace"),
          NL >>,
       << Tok("RightParen"), Tok("RightParen") >>,
       << Tok("LeftParen"), Tok("LeftParen"), NL >>,
       << Id("f"), Tok("ColonColon"), Tok("Fn"), Tok("LeftBrace"), NL, Tok("RightBrace"),
          NL, Id("f"), Tok("LeftParen"), IntTok(1), Tok("Comma") >>,
       << Tok("LeftParen"), IntTok(1), Tok("Comma") >>,
       << Tok("Blob"), Id("A"), Tok("LeftBrace"), NL, Id("x") >>,
       << Tok("Blob"), Id("A"), Tok("LeftBrace"), NL, IntTok(1), IntTok(2), NL,
          Tok("RightBrace"), NL >>,
       << Id("f"), Tok("ColonColon"), Tok("Fn"), Id("a"), Tok("Colon"), Id("int"),
          Tok("Comma"), Tok("RightParen"), Tok("LeftBrace") >>,
       << Id("a"), Tok("ColonColon"), IntTok(1), NL, Id("a"), Tok("Dot"), Id("b"),
          Tok("Dot") >>,
       << Id("f"), Tok("ColonColon"), Tok("Fn"), Tok("LeftBrace"), NL, Tok("RightBrace"),
          NL, Id("f"), Tok("Bang"), IntTok(1), Tok("Comma"), Tok("RightParen"), NL >>,
       << Tok("LeftBrace"), NL, IntTok(1), IntTok(2), NL, Tok("RightParen"), IntTok(3),
          NL, Tok("RightBrace"), NL >>,
       << IntTok(1), IntTok(2), IntTok(3), IntTok(4), NL, IntTok(5), NL >>,
       << Id("a"), Tok("ColonColon"), IntTok(1), NL, Tok("LeftParen"), IntTok(1),
          Tok("Plus"), Tok("Comma"), Tok("Comma"), Id("a"), Tok("Dot"), Id("b"),
          Tok("Dot"), Id("c"), Tok("RightParen"), NL >>,
       << Id("f"), Tok("ColonColon"), Tok("Fn"), Id("a"), Tok("Comma"), Id("b"),
          Tok("Colon"), Id("int"), Tok("LeftBrace"), NL, Tok("RightBrace"), NL >> >>

\* The tuple (1, 2) indexed by i, from one below its first index to MaxIndex:
\*   (1, 2)[i]
MaxIndex == 3
SrcIndexAt(i) ==
    << Tok("LeftParen"), IntTok(1), Tok("Comma"), IntTok(2), Tok("RightParen"),
       Tok("LeftBracket") >>
    \o (IF i < 0 THEN << Tok("Minus"), IntTok(-i) >> ELSE << IntTok(i) >>)
    \o << Tok("RightBracket"), NL >>

\* An expression statement: the operands 1, 2, .. joined by the operator
\* tokens os, as in
\*   1 + 2 * 3 <=> 4
ExprOps == {"AssertEqual", "And", "LessEqual", "Plus", "Star"}
MaxExprOps == 3
ExprShapes == UNION {[1..n -> ExprOps] : n \in 1..MaxExprOps}
RECURSIVE SrcExpr(_, _)
SrcExpr(os, i) ==
    IF i > Len(os) THEN <<IntTok(i), NL>>
    ELSE <<IntTok(i), Tok(os[i])>> \o SrcExpr(os, i + 1)

\* Two binary operators of one precedence level between three operands:
\*   1 / 2 / 3
AssocOps == {"AssertEqual", "EqualEqual", "Less", "Plus", "Minus", "Star", "Slash"}
AssocShapes ==
    {os \in [1..2 -> AssocOps] : precedence(Tok(os[1])) = precedence(Tok(os[2]))}

(***************************************************************************)
(* Programs assembled by hand: a Prog handed to VM::init as it is.         *)
(***************************************************************************)
\* The bytes of one instruction <<name, operand, ...>>.
RECURSIVE Operands(_, _)
Operands(ins, i) ==
    IF i > Len(ins) THEN <<>> ELSE be_bytes(ins[i]) \o Operands(ins, i + 1)
RECURSIVE Asm(_)
Asm(code) ==
    IF code = <<>> THEN <<>>
    ELSE <<OpByte(Head(code)[1])>> \o Operands(Head(code), 2) \o Asm(Tail(code))

MainBlock(code) ==
    [Block_new("/preamble") EXCEPT !.ty = TFunction(<<>>, TVoid), !.ops = Asm(code)]

\* The values an Assert is run on.
AssertValues == <<VBool(TRUE), VBool(FALSE), VInt(1), VInt(0), Nil, VString("a")>>

\*   Constant(v), Assert, Pop, Constant(nil), Return
AsmAssert(n) ==
    [blocks |-> <<MainBlock(<< <<"Constant", 1>>, <<"Assert">>, <<"Pop">>,
                               <<"Constant", 0>>, <<"Return">> >>)>>,
     blobs |-> <<>>, functions |-> ExternFunctions,
     constants |-> <<Nil, AssertValues[n]>>, strings |-> <<>>]

\* Three values in the slots 1..3 and a closure over the slots 1 and 3 in slot 4,
\* then JmpNPop(target, n) at stack height 5 (the function of the frame is
\* in slot 0):
\*    0 Constant(10)   9 Constant(20)   18 Constant(30)   27 Constant(closure)
\*   36 JmpNPop(target, n)   53 Nop   54 Constant(nil)   63 Return
MaxPop == 6
JmpTargets == {53, 54}
AsmJmpNPop(target, n) ==
    [blocks |-> <<MainBlock(<< <<"Constant", 1>>, <<"Constant", 2>>, <<"Constant", 3>>,
                               <<"Constant", 4>>, <<"JmpNPop", target, n>>, <<"Nop">>,
                               <<"Constant", 0>>, <<"Return">> >>),
                  [Block_new("k") EXCEPT
                        !.ty = TFunction(<<>>, TVoid),
                        !.ops = Asm(<< <<"Constant", 0>>, <<"Return">> >>),
                        !.upvalues = <<[slot |-> 1, is_up |-> FALSE, ty |-> TInt],
                                       [slot |-> 3, is_up |-> FALSE, ty |-> TInt]>>]>>,
     blobs |-> <<>>, functions |-> ExternFunctions,
     constants |-> <<Nil, VInt(10), VInt(20), VInt(30),
                     VFunction(<<>>, 2, TFunction(<<>>, TVoid))>>,
     strings |-> <<>>]

(***************************************************************************)
(* The inputs.  kind "file": a source file given to run (lib.rs), which    *)
(* compiles, typechecks, initializes and runs it.  kind "prog": a Prog     *)
(* given to VM::init and run without the typecheck, by a caller that keeps *)
(* the VM and may call run again after a Yield.                            *)
(***************************************************************************)
Input(kind, name) ==
    [kind |-> kind, name |-> name, decl |-> "", assign |-> "", depth |-> 0,
     target |-> 0, n |-> 0, expr |-> <<>>, ty |-> ""]

FileNames ==
    {"Index", "Div", "Calls", "Factorial", "Counter", "CounterParam", "Shared",
     "YieldYield", "Yield", "Wipe", "AssertFalse", "WrongParams", "WrongRet",
     "NotSum", "Extern", "FieldRead", "FieldAssign", "If", "For",
     "Unevaluated", "Captured", "Loop", "BlobParam", "BlobArgs", "TwoErrors",
     "Nested", "ParamShadow", "Redeclared", "SelfRead", "SelfUndefined",
     "DefineUnknown", "ForInt"}
ProgNames ==
    {"Factorial", "Counter", "CounterParam", "YieldYield", "Yield", "YieldOpen"}

Inputs ==
    {Input("file", name) : name \in FileNames}
    \cup {Input("prog", name) : name \in ProgNames}
    \cup {[Input("file", "Assign") EXCEPT !.decl = decl, !.assign = o, !.depth = depth] :
            decl \in Decls, o \in AssignOps, depth \in 0..MaxDepth}
    \cup {[Input("file", "Expr") EXCEPT !.expr = os] : os \in ExprShapes}
    \cup {[Input("file", "Assoc") EXCEPT !.expr = os] : os \in AssocShapes}
    \cup {[Input("file", "Uncallable") EXCEPT !.ty = ty, !.n = n] :
            ty \in UncallableTypes, n \in 0..MaxArgs}
    \cup {[Input("file", "IndexAt") EXCEPT !.n = i] : i \in -1..MaxIndex}
    \cup {[Input("file", "Junk") EXCEPT !.n = i] : i \in 1..Len(SrcJunk)}
    \cup {[Input("prog", "Assert") EXCEPT !.n = n] : n \in 1..Len(AssertValues)}
    \cup {[Input("prog", "JmpNPop") EXCEPT !.target = target, !.n = n] :
            target \in JmpTargets, n \in 0..MaxPop}

\* The tokens of the input's source file.
Tokens(i) ==
    CASE i.name = "Index" -> SrcIndex
      [] i.name = "Div" -> SrcDiv
      [] i.name = "Calls" -> SrcCalls
      [] i.name = "Factorial" -> SrcFactorial
      [] i.name = "Counter" -> SrcCounter
      [] i.name = "CounterParam" -> SrcCounterParam
      [] i.name = "Shared" -> SrcShared
      [] i.name = "YieldYield" -> SrcYieldYield
      [] i.name = "Yield" -> SrcYield
      [] i.name = "Wipe" -> SrcWipe
      [] i.name = "AssertFalse" -> SrcAssertFalse
      [] i.name = "Assign" -> SrcAssign(i.decl, i.assign, i.depth)
      [] i.name = "Expr" -> SrcExpr(i.expr, 1)
      [] i.name = "Assoc" -> SrcExpr(i.expr, 1)
      [] i.name = "Uncallable" -> SrcUncallable(i.ty, i.n)
      [] i.name = "WrongParams" -> SrcWrongParams
      [] i.name = "WrongRet" -> SrcWrongRet
      [] i.name = "NotSum" -> SrcNotSum
      [] i.name = "Extern" -> SrcExtern
      [] i.name = "FieldRead" -> SrcFieldRead
      [] i.name = "FieldAssign" -> SrcFieldAssign
      [] i.name = "If" -> SrcIf
      [] i.name = "For" -> SrcFor
      [] i.name = "Unevaluated" -> SrcUnevaluated
      [] i.name = "Captured" -> SrcCaptured
      [] i.name = "Loop" -> SrcLoop
      [] i.name = "BlobParam" -> SrcBlobParam
      [] i.name = "BlobArgs" -> SrcBlobArgs
      [] i.name = "TwoErrors" -> SrcTwoErrors
      [] i.name = "Nested" -> SrcNested
      [] i.name = "ParamShadow" -> SrcParamShadow
      [] i.name = "Redeclared" -> SrcRedeclared
      [] i.name = "SelfRead" -> SrcSelfRead
      [] i.name = "SelfUndefined" -> SrcSelfUndefined
      [] i.name = "DefineUnknown" -> SrcDefineUnknown
      [] i.name = "YieldOpen" -> SrcYieldOpen
      [] i.name = "ForInt" -> SrcForInt
      [] i.name = "Junk" -> SrcJunk[i.n]
      [] i.name = "IndexAt" -> SrcIndexAt(i.n)
      [] OTHER -> <<>>

NoProg ==
    [blocks |-> <<>>, blobs |-> <<>>, functions |-> <<>>, constants |-> <<>>,
     strings |-> <<>>]

\* The Prog of an input of kind "prog".
Program(i) ==
    CASE i.name = "Assert" -> AsmAssert(i.n)
      [] i.name = "JmpNPop" -> AsmJmpNPop(i.target, i.n)
      [] OTHER -> compile(Tokens(i)).prog

(***************************************************************************)
(* The state machine.                                                      *)
(*   input     what the caller handed in;                                  *)
(*   phase     where the pipeline of run (lib.rs) is: "source",            *)
(*             "compiled", "typecheck", "checked", "loaded", "running",    *)
(*             "yielded", or one of the ends "done", "error", "panic",     *)
(*             "compile_error", "compiler_panic", "type_error", or         *)
(*             "reinit" once the caller has called VM::init a second time; *)
(*   prog      the Prog; vm the VM; result what the last call returned;    *)
(*   tc        VM::typecheck's position: the block under check and the     *)
(*             errors collected so far (block, ip of the op, ErrorKind);   *)
(*   compiled  what Compiler::compile returned and recorded, with the      *)
(*             history of its statement boundaries, of the failed          *)
(*             alternatives of parse_branch! and of the statement each     *)
(*             error was recorded in;                                      *)
(*   step      history: the op the last CheckStep or RunStep decoded, its   *)
(*             operands, the VM before it, its result, and for a Return    *)
(*             the entry of calls it matched;                              *)
(*   calls     history: for every frame above the first, the stack height  *)
(*             h at its Call, the Call's operand n, and the caller's       *)
(*             block, frame depth and ip after the Call's operand.         *)
(***************************************************************************)
VARIABLES prog, vm, result, tc, compiled, step, calls

vars == <<input, phase, prog, vm, result, tc, compiled, step, calls>>

NoCall == [h |-> 0, n |-> 0, block |-> 0, depth |-> 0, ip |-> 0]
NoStep ==
    [mode |-> "none", op |-> "", arg |-> 0, arg2 |-> 0, pre |-> VM_new, res |-> "",
     call |-> NoCall]
NotCompiled ==
    [done |-> FALSE, ok |-> FALSE, panic |-> FALSE, errors |-> <<>>,
     recorded |-> <<>>, reported |-> 0, marks |-> <<>>, branches |-> <<>>,
     windows |-> <<>>, resolved |-> <<>>, declared |-> <<>>,
     initialised |-> <<>>, turns |-> <<>>]

Init ==
    /\ input \in Inputs
    /\ phase = IF input.kind = "file" THEN "source" ELSE "loaded"
    /\ prog = IF input.kind = "file" THEN NoProg ELSE Program(input)
    /\ vm = VM_new
    /\ result = ""
    /\ tc = [block |-> 0, errors |-> <<>>]
    /\ compiled = NotCompiled
    /\ step = NoStep
    /\ calls = <<>>

\* run (lib.rs): Compiler::compile on the tokens of the file.
Compile ==
    /\ phase = "source"
    /\ \E r \in {compile(Tokens(input))} :
           /\ compiled' = [done |-> TRUE, ok |-> r.ok, panic |-> r.panic,
                           errors |-> r.errors, recorded |-> r.recorded,
                           reported |-> r.reported, marks |-> r.marks,
                           branches |-> r.branches, windows |-> r.windows,
                           resolved |-> r.resolved, declared |-> r.declared,
                           initialised |-> r.initialised, turns |-> r.turns]
           /\ phase' = IF r.panic THEN "compiler_panic"
                       ELSE IF r.ok THEN "compiled" ELSE "compile_error"
           /\ prog' = IF r.ok THEN r.prog ELSE NoProg
           /\ result' = IF r.panic THEN "Panic" ELSE IF r.ok THEN "Ok" ELSE "SyntaxError"
    /\ step' = NoStep
    /\ UNCHANGED <<input, vm, tc, calls>>

\* VM::typecheck up to the loop of typecheck_block on the first block.
Typecheck ==
    /\ phase = "compiled"
    /\ phase' = "typecheck"
    /\ vm' = typecheck_block_enter([VM_new EXCEPT !.runtime = FALSE], prog, 1)
    /\ tc' = [block |-> 1, errors |-> <<>>]
    /\ step' = NoStep
    /\ UNCHANGED <<input, prog, result, compiled, calls>>

\* The operands of the op at ip, read as VM::usize reads them (0 if unreadable).
Operand(v, p, k) ==
    LET second(w) == IF w.err # "" THEN 0 ELSE w.n
        first(u) ==
            IF u.err # "" THEN 0 ELSE IF k = 1 THEN u.n ELSE second(usize(u.vm, p))
        decoded(d) == IF d.op \in {"Panic", "Misdecode"} THEN 0 ELSE first(usize(d.vm, p))
    IN  decoded(op(v, p))

\* One turn of the loop of VM::typecheck_block.
CheckStep ==
    /\ phase = "typecheck"
    /\ frame(vm).ip < Len(block_of(vm, prog).ops)
    /\ \E r \in {typecheck_step(vm, prog)} :
        \E fatal \in {r.res \in {"Panic", "Misdecode"}} :
           /\ vm' = r.vm
           /\ prog' = r.prog
           /\ phase' = IF fatal THEN "panic" ELSE "typecheck"
           /\ result' = IF fatal THEN r.res ELSE result
           /\ tc' = [tc EXCEPT !.errors =
                        IF r.res = "Ok" \/ fatal THEN @
                        ELSE Append(@, [block |-> tc.block, ip |-> frame(vm).ip,
                                        kind |-> r.res])]
           /\ step' = [mode |-> "check", op |-> op(vm, prog).op,
                       arg |-> Operand(vm, prog, 1), arg2 |-> Operand(vm, prog, 2),
                       pre |-> vm, res |-> r.res, call |-> NoCall]
    /\ UNCHANGED <<input, compiled, calls>>

\* The loop of typecheck_block breaks at the end of the block; VM::typecheck
\* goes on to the next block.
NextBlock ==
    /\ phase = "typecheck"
    /\ frame(vm).ip >= Len(block_of(vm, prog).ops)
    /\ tc.block < Len(prog.blocks)
    /\ vm' = typecheck_block_enter(vm, prog, tc.block + 1)
    /\ tc' = [tc EXCEPT !.block = @ + 1]
    /\ step' = NoStep
    /\ UNCHANGED <<input, phase, prog, result, compiled, calls>>

\* The last block is checked: VM::typecheck returns Ok(()) or Err(errors).
TypecheckEnd ==
    /\ phase = "typecheck"
    /\ frame(vm).ip >= Len(block_of(vm, prog).ops)
    /\ tc.block = Len(prog.blocks)
    /\ phase' = IF tc.errors = <<>> THEN "checked" ELSE "type_error"
    /\ result' = IF tc.errors = <<>> THEN "Ok" ELSE "TypeError"
    /\ step' = NoStep
    /\ UNCHANGED <<input, prog, vm, tc, compiled, calls>>

\* VM::init
VMInit ==
    /\ phase \in {"checked", "loaded"}
    /\ vm' = VM_init(vm, prog)
    /\ phase' = "running"
    /\ step' = NoStep
    /\ UNCHANGED <<input, prog, result, tc, compiled, calls>>

\* One turn of the loop of VM::run.
RunStep ==
    /\ phase = "running"
    /\ \E r \in {run_step(vm, prog)}, o \in {op(vm, prog).op}, n \in {Operand(vm, prog, 1)} :
        \E entered \in {o = "Call" /\ r.res = "Continue"
                            /\ Len(r.vm.frames) = Len(vm.frames) + 1},
           left \in {o = "Return" /\ r.res = "Continue"} :
           /\ vm' = r.vm
           /\ result' = r.res
           /\ phase' = CASE r.res = "Continue" -> "running"
                         [] r.res = "Yield" -> "yielded"
                         [] r.res = "Done" -> "done"
                         [] r.res \in {"Panic", "Misdecode"} -> "panic"
                         [] OTHER -> "error"
           /\ calls' = IF entered
                       THEN Append(calls, [h |-> Len(vm.stack), n |-> n,
                                           block |-> frame(vm).block,
                                           depth |-> Len(vm.frames),
                                           ip |-> frame(vm).ip + 9])
                       ELSE IF left THEN Front(calls) ELSE calls
           /\ step' = [mode |-> "run", op |-> o, arg |-> n,
                       arg2 |-> Operand(vm, prog, 2), pre |-> vm, res |-> r.res,
                       call |-> IF left THEN Last(calls) ELSE NoCall]
    /\ UNCHANGED <<input, prog, tc, compiled>>

\* The caller that kept the VM calls VM::run again after a Yield.
Resume ==
    /\ phase = "yielded"
    /\ input.kind = "prog"
    /\ phase' = "running"
    /\ step' = NoStep
    /\ UNCHANGED <<input, prog, vm, result, tc, compiled, calls>>

\* VM::init called again by the caller that keeps the VM, after run returned.
Reinit ==
    /\ phase \in {"yielded", "done", "error"}
    /\ input.kind = "prog"
    /\ vm' = VM_init(vm, prog)
    /\ phase' = "reinit"
    /\ step' = NoStep
    /\ UNCHANGED <<input, prog, result, tc, compiled, calls>>

Next ==
    \/ Compile
    \/ Typecheck
    \/ CheckStep
    \/ NextBlock
    \/ TypecheckEnd
    \/ VMInit
    \/ RunStep
    \/ Resume
    \/ Reinit

Spec == Init /\ [][Next]_vars

(***************************************************************************)
(* Properties.                                                             *)
(***************************************************************************)
\* The last RunStep executed op o and returned Continue.
Ran(o) == step.mode = "run" /\ step.op = o /\ step.res = "Continue"
\* The function in the first slot of the running frame.
Callee(v) == At(v.stack, frame(v).stack_offset)
\* What a read through the cell c yields.
CellValue(v, c) == UpValue_get(v.cells[c], v.stack)

\* C1: the run of a program that compiled and typechecked without error only
\* ever returns Continue, Done, Yield or an error of kind AssertFailed,
\* Unreachable, IndexOutOfBounds or RuntimeTypeError: no panic, no access out
\* of range, no InvalidProgram.
TypecheckedRunIsSafe ==
    (input.kind = "file" /\ vm.runtime) =>
        result \in {"Ok", "Continue", "Done", "Yield", "AssertFailed", "Unreachable",
                    "IndexOutOfBounds", "RuntimeTypeError"}

\* C2: when the Return matching a Call(n) executed at stack height h has run,
\* the stack height is h - n, the slot of the callee holds the returned value
\* and the caller goes on at the op after the Call; in typecheck mode the
\* height right after a checked Call on a function is h - n as well.
CallReturnHeights ==
    /\ Ran("Return") =>
          /\ Len(vm.stack) = step.call.h - step.call.n
          /\ At(vm.stack, step.call.h - step.call.n - 1) = top(step.pre)
          /\ Len(vm.frames) = step.call.depth
          /\ frame(vm).block = step.call.block
          /\ frame(vm).ip = step.call.ip
    /\ (/\ step.mode = "check" /\ step.op = "Call" /\ step.res = "Ok"
        /\ Len(step.pre.stack) > step.arg
        /\ At(step.pre.stack, Len(step.pre.stack) - 1 - step.arg).k = "Function") =>
          Len(vm.stack) = Len(step.pre.stack) - step.arg

\* A Return into a nested caller from a call with two arguments.
CallReturnSeen ==
    /\ Ran("Return")
    /\ step.call.n = 2
    /\ step.call.depth = 2
    /\ Len(vm.stack) = step.call.h - 2

\* C3: the closures two calls of f return count apart, and a closure called
\* again counts on: the counter program, whose assertions say a() is 1, a() is
\* 2 and b() is 1, typechecks and runs to Done.
CounterClosuresRun ==
    input.name = "Counter" =>
        /\ tc.errors = <<>>
        /\ phase \notin {"compile_error", "compiler_panic", "type_error", "error", "panic"}

\* C4: a Yield leaves ip at the op right after it, where the next call of run
\* goes on, and leaves the stack, the frames and the up-value table as they
\* were.
YieldResumesAtNextOp ==
    (step.mode = "run" /\ step.op = "Yield") =>
        /\ step.res = "Yield"
        /\ frame(vm).ip = frame(step.pre).ip + 1
        /\ vm.stack = step.pre.stack
        /\ Len(vm.frames) = Len(step.pre.frames)
        /\ vm.upvalues = step.pre.upvalues

\* C5: once a statement ended with a syntax error reported, compile returns
\* Err and no later pass starts; init and run start only after a typecheck
\* without error.
LaterPassesNeedCleanCompile ==
    /\ (input.kind = "file" /\ compiled.done /\ compiled.reported > 0) =>
          phase = "compile_error"
    /\ (input.kind = "file" /\ phase \notin {"source", "compile_error", "compiler_panic"}) =>
          compiled.ok
    /\ (input.kind = "file" /\ vm.runtime) => tc.errors = <<>>

\* C6: the table holds one open cell per captured slot and every closure a
\* Constant instantiates gets that cell; a write through a closure, or to the
\* local while its cell is open, is what every read through the cell yields,
\* and closing a cell keeps the value a read yielded before.
SharedCells ==
    /\ \A s \in DOMAIN vm.upvalues : vm.cells[vm.upvalues[s]].slot = s
    /\ (Ran("Constant") /\ top(vm).k = "Function") =>
          LET descs == prog.blocks[top(vm).v.block].upvalues
              ups == top(vm).v.ups
              offset == frame(step.pre).stack_offset
          IN  /\ Len(ups) = Len(descs)
              /\ \A i \in 1..Len(descs) :
                    IF descs[i].is_up
                    THEN ups[i] = At(Callee(step.pre).v.ups, descs[i].slot)
                    ELSE /\ (offset + descs[i].slot) \in DOMAIN vm.upvalues
                         /\ ups[i] = vm.upvalues[offset + descs[i].slot]
                         /\ (offset + descs[i].slot) \in DOMAIN step.pre.upvalues =>
                                ups[i] = step.pre.upvalues[offset + descs[i].slot]
    /\ Ran("AssignUpvalue") =>
          CellValue(vm, At(Callee(step.pre).v.ups, step.arg)) = top(step.pre)
    /\ Ran("ReadUpvalue") =>
          top(vm) = CellValue(step.pre, At(Callee(step.pre).v.ups, step.arg))
    /\ Ran("AssignLocal") =>
          LET s == frame(step.pre).stack_offset + step.arg
          IN  s \in DOMAIN step.pre.upvalues =>
                 CellValue(vm, step.pre.upvalues[s]) = top(step.pre)
    /\ (step.mode = "run" /\ step.res = "Continue") =>
          \A c \in 1..Len(step.pre.cells) :
             /\ (is_closed(step.pre.cells[c]) /\ step.op # "AssignUpvalue") =>
                    vm.cells[c] = step.pre.cells[c]
             /\ (~is_closed(step.pre.cells[c]) /\ is_closed(vm.cells[c])) =>
                    vm.cells[c].value = CellValue(step.pre, c)

\* A read through a closed cell that two closures of different blocks on the
\* stack hold, yielding the 2 the other closure wrote after the cell was closed
\* with 1.
SharedCellSeen ==
    /\ Ran("ReadUpvalue")
    /\ top(vm) = VInt(2)
    /\ LET c == At(Callee(step.pre).v.ups, step.arg)
       IN  /\ is_closed(vm.cells[c])
           /\ \E i, j \in 1..Len(vm.stack) :
                 /\ vm.stack[i].k = "Function" /\ vm.stack[j].k = "Function"
                 /\ vm.stack[i].v.block # vm.stack[j].v.block
                 /\ c \in Range(vm.stack[i].v.ups)
                 /\ c \in Range(vm.stack[j].v.ups)

\* C7: JmpNPop(target, n) at stack height h keeps the slots below h - n, cuts
\* the stack to h - n, closes every open up-value of a slot in [h - n, h) with
\* the value of the slot and takes it off the table, leaves the up-values of
\* lower slots open, and sets ip to target.
JmpNPopEffect ==
    Ran("JmpNPop") =>
        LET h == Len(step.pre.stack)
            n == step.arg2
        IN  /\ Len(vm.stack) = h - n
            /\ \A i \in 0..(h - n - 1) : At(vm.stack, i) = At(step.pre.stack, i)
            /\ DOMAIN vm.upvalues = {s \in DOMAIN step.pre.upvalues : s < h - n}
            /\ \A s \in DOMAIN step.pre.upvalues :
                  IF s < h - n
                  THEN /\ vm.upvalues[s] = step.pre.upvalues[s]
                       /\ vm.cells[vm.upvalues[s]] = UpValue_new(s)
                  ELSE vm.cells[step.pre.upvalues[s]] =
                          [slot |-> 0, value |-> At(step.pre.stack, s)]
            /\ Len(vm.cells) = Len(step.pre.cells)
            /\ frame(vm).ip = step.arg

\* A JmpNPop of two slots that closed the cell of slot 3 with its 30 and left
\* the cell of slot 1 open.
JmpNPopSeen ==
    /\ Ran("JmpNPop")
    /\ step.arg2 = 2
    /\ DOMAIN step.pre.upvalues = {1, 3}
    /\ DOMAIN vm.upvalues = {1}
    /\ vm.cells[step.pre.upvalues[3]] = [slot |-> 0, value |-> VInt(30)]
    /\ frame(vm).ip = 54

FactorialRuns ==
    input = Input("file", "Factorial") =>
        /\ tc.errors = <<>>
        /\ phase \notin {"compile_error", "compiler_panic", "type_error", "error", "panic"}

\* C10: an assignment = += -= *= /= to a name bound with `::` records the
\* syntax error "Cannot assign to constant", in the frame of the binding and
\* from nested functions that capture it, and compile returns Err; an assignment
\* to a name bound with `:=` or `: T =` records no error.
ConstantAssignIsError ==
    (input.name = "Assign" /\ compiled.done) =>
        IF input.decl = "ColonColon"
        THEN /\ "Cannot assign to constant" \in Range(compiled.recorded)
             /\ "Cannot assign to constant" \in Range(compiled.errors)
             /\ ~compiled.ok
        ELSE compiled.recorded = <<>> /\ compiled.ok

\* The error recorded for `a /= 2` two functions below `a :: 1`.
ConstantAssignSeen ==
    /\ input.name = "Assign"
    /\ input.decl = "ColonColon"
    /\ input.assign = "SlashEqual"
    /\ input.depth = 2
    /\ compiled.done
    /\ compiled.errors = <<"Cannot assign to constant">>

(***************************************************************************)
(* The ops of a block as they were emitted: a Constant with the value it   *)
(* loads, every other op by its name alone (operands left out).            *)
(***************************************************************************)
Load(v) == [op |-> "Constant", v |-> v]
Do(o) == [op |-> o, v |-> Nil]
OperandCount(o) ==
    CASE o \in {"Constant", "Tuple", "Get", "Set", "Jmp", "JmpFalse", "ReadUpvalue",
                "AssignUpvalue", "ReadLocal", "AssignLocal", "Define", "Call"} -> 1
      [] o = "JmpNPop" -> 2
      [] OTHER -> 0
RECURSIVE Emitted(_, _, _)
Emitted(ops, constants, i) ==
    IF i > Len(ops) THEN <<>>
    ELSE IF ops[i].v = "Constant"
        THEN <<Load(constants[from_be_bytes(SubSeq(ops, i + 1, i + 8)) + 1])>>
                 \o Emitted(ops, constants, i + 9)
    ELSE <<Do(ops[i].v)>> \o Emitted(ops, constants, i + 1 + 8 * OperandCount(ops[i].v))

\* What an expression statement's block ends with: the statement's Pop and
\* the Constant(nil), Return of Compiler::compile.
StatementTail == <<Do("Pop"), Load(Nil), Do("Return")>>

\* The op of every binary operator token (spec: the table of binary operators).
Operation(t) ==
    CASE t = "Plus" -> <<Do("Add")>>
      [] t = "Star" -> <<Do("Mul")>>
      [] t = "LessEqual" -> <<Do("Greater"), Do("Not")>>
      [] t = "And" -> <<Do("And")>>
      [] t = "AssertEqual" -> <<Do("Equal"), Do("Assert")>>

\* The postfix forms of the trees over the operators lo..hi of os (operands
\* lo..hi+1) in which an operator of a higher level binds before one of a
\* lower level: the root is an operator of the lowest level present.
RECURSIVE Postfix(_, _, _)
Postfix(os, lo, hi) ==
    IF lo > hi THEN {<<Load(VInt(lo))>>}
    ELSE UNION {{l \o r \o Operation(os[i]) :
                    l \in Postfix(os, lo, i - 1), r \in Postfix(os, i + 1, hi)} :
                i \in {j \in lo..hi :
                        \A k \in lo..hi :
                            precedence(Tok(os[j])) <= precedence(Tok(os[k]))}}

\* C11: an expression of operands and binary operators of the levels Assert,
\* Bool, Comparison, Term and Factor compiles, and the ops emitted for it are
\* the postfix form of its precedence tree, left operand before right.
PrattPostfix ==
    (input.name = "Expr" /\ compiled.done) =>
        /\ compiled.ok
        /\ \E e \in Postfix(input.expr, 1, Len(input.expr)) :
               Emitted(prog.blocks[1].ops, prog.constants, 1) = e \o StatementTail

\* C11 without the level Bool, whose operators Compiler::infix does not take.
PrattPostfixBelowBool ==
    (input.name = "Expr" /\ compiled.done /\ \A i \in 1..Len(input.expr) :
                                                input.expr[i] # "And") =>
        /\ compiled.ok
        /\ \E e \in Postfix(input.expr, 1, Len(input.expr)) :
               Emitted(prog.blocks[1].ops, prog.constants, 1) = e \o StatementTail

\* The errors of VM::typecheck are in block order, then op order.
InCheckOrder(errors) ==
    \A i, j \in 1..Len(errors) :
        i < j => \/ errors[i].block < errors[j].block
                 \/ errors[i].block = errors[j].block /\ errors[i].ip < errors[j].ip

\* C12: typecheck goes through every block once, in order, each from the
\* block's function and the exemplars of its parameters on a cleared stack;
\* after an op, failed or not, it checks the op that follows it; it returns Err
\* iff an error was recorded, the errors in block and op order; run ends at its
\* first error.
TypecheckCollectsAll ==
    /\ (phase = "typecheck" /\ step = NoStep) =>
            /\ frame(vm).ip = 0
            /\ vm.stack = <<VFunction(<<>>, tc.block, prog.blocks[tc.block].ty)>>
                    \o [i \in 1..Len(Block_args(prog.blocks[tc.block].ty)) |->
                            ValueOf(Block_args(prog.blocks[tc.block].ty)[i])]
    /\ step.mode = "check" =>
            /\ phase = "typecheck"
            /\ frame(vm).block = tc.block
            /\ frame(vm).ip = frame(step.pre).ip + 1 + 8 * OperandCount(step.op)
    /\ phase \in {"checked", "type_error"} =>
            /\ tc.block = Len(prog.blocks)
            /\ (result = "Ok") = (tc.errors = <<>>)
            /\ InCheckOrder(tc.errors)
    /\ (step.mode = "run" /\ step.res \notin {"Continue", "Yield", "Done"}) =>
            phase \in {"error", "panic"} /\ result = step.res

\* The callee of the Call the last CheckStep checked.
CheckedCallee == At(step.pre.stack, Len(step.pre.stack) - 1 - step.arg)
\* typecheck has recorded a TypeError at a Call.
CallRejected ==
    \E i \in 1..Len(tc.errors) :
        /\ tc.errors[i].kind = "TypeError"
        /\ At(prog.blocks[tc.errors[i].block].ops, tc.errors[i].ip) = OpByte("Call")

\* C13: in typecheck mode a Call of a value that is no Blob, Function or
\* ExternFunction records a TypeError, and a program with such a Call is never
\* run: typecheck does not return Ok.
UncallableIsTypeError ==
    /\ (step.mode = "check" /\ step.op = "Call" /\ step.arg < Len(step.pre.stack)
            /\ CheckedCallee.k \notin {"Blob", "Function", "ExternFunction"}) =>
            /\ step.res = "TypeError"
            /\ Last(tc.errors) = [block |-> tc.block, ip |-> frame(step.pre).ip,
                                  kind |-> "TypeError"]
    /\ (input.name = "Uncallable" /\ phase \notin {"source", "compiled", "typecheck"}) =>
            /\ phase = "type_error"
            /\ result = "TypeError"
            /\ CallRejected
            /\ ~vm.runtime
UncallableSeen ==
    /\ input.name = "Uncallable"
    /\ input.ty = "int"
    /\ phase = "type_error"
    /\ CallRejected

(***************************************************************************)
(* The library's functions on types, values and up-values, called one at a *)
(* time by a caller that holds the arguments: input is the call            *)
(* [fn, a, b], result what it returned, phase "source" before and "done"   *)
(* after the call; the VM's variables stay as constructed.                 *)
(***************************************************************************)
LibCall(fn, a, b) == [fn |-> fn, a |-> a, b |-> b]

\* The types up to a nesting depth: every constructor of enum Type over the
\* types one level down.
Atoms == {TUnknown, TInt, TBool}
MaxTypeDepth == 2
RECURSIVE Types(_)
Types(d) ==
    IF d = 0 THEN Atoms
    ELSE LET below(ts) ==
                ts \cup {TTuple(<<>>)} \cup {TTuple(<<t>>) : t \in ts}
                   \cup {TTuple(<<TInt, t>>) : t \in ts} \cup {TList(t) : t \in ts}
                   \cup {TUnion({t}) : t \in ts} \cup {TUnion({TInt, t}) : t \in ts}
                   \cup {TFunction(<<t>>, TVoid) : t \in ts}
                   \cup {TFunction(<<>>, t) : t \in ts}
         IN  below(Types(d - 1))

\* a.fits(a) and a.fits(Unknown) for every type a.
FitsCalls ==
    {LibCall("fits", t, u) : t \in Types(MaxTypeDepth), u \in {"self", "Unknown"}}

\* The scalars of each kind and the tuples of scalars of each length.
Numbers == -1..1
Strings == {<<>>, <<97>>, <<97, 98>>, <<98>>}
MaxTupleLen == 2
Scalars ==
    << {VInt(i) : i \in Numbers}, {VFloat(f) : f \in Numbers},
       {VBool(b) : b \in BOOLEAN}, {VString(z) : z \in Strings} >>
TuplesOf(n) == {VTuple(vs) : vs \in [1..n -> {VInt(i) : i \in 0..1}]}

\* less on every pair of three values of one kind.
LessCalls ==
    {LibCall("less", vs, 0) :
        vs \in UNION ({[1..3 -> Scalars[k]] : k \in 1..Len(Scalars)}
                        \cup {[1..3 -> TuplesOf(n)] : n \in 0..MaxTupleLen})}

\* The values built from scalars by tuples and lists, up to a nesting depth.
MaxValueDepth == 2
RECURSIVE Values(_)
Values(d) ==
    IF d = 0 THEN {VInt(0), VInt(-1), VFloat(1), VBool(TRUE), VBool(FALSE),
                   VString(<<>>), VString(<<97>>)}
    ELSE LET over(vs) ==
                vs \cup {VTuple(<<>>), VList(<<>>)}
                   \cup {VTuple(<<v>>) : v \in vs} \cup {VTuple(<<VInt(0), v>>) : v \in vs}
                   \cup {VList(<<v>>) : v \in vs} \cup {VList(<<v, v>>) : v \in vs}
         IN  over(Values(d - 1))

\* eq on a value and itself.
EqCalls == {LibCall("eq", v, "self") : v \in Values(MaxValueDepth)}

\* The tuple types of int and bool, up to MaxTupleLen elements.
TupleTypes ==
    {TTuple(ts) : ts \in UNION {[1..n -> {TInt, TBool}] : n \in 0..MaxTupleLen}}

\* a == a for every type a, and a == b for every two tuple types.
TypeEqCalls ==
    {LibCall("type_eq", t, t) : t \in Types(MaxTypeDepth)}
        \cup {LibCall("type_eq", t, u) : t \in TupleTypes, u \in TupleTypes}

\* The binary operator functions of mod op, by name.
BinaryOps == {"add", "mul", "div", "eq", "less", "and", "or"}
binary_op(name, a, b) ==
    CASE name = "add" -> add(a, b)
      [] name = "mul" -> mul(a, b)
      [] name = "div" -> div(a, b)
      [] name = "eq" -> eq(a, b)
      [] name = "less" -> less(a, b)
      [] name = "and" -> and(a, b)
      [] name = "or" -> or(a, b)

\* Every operator on Unknown and a value, in both orders.
OtherOperands ==
    {Unknown, Nil, VInt(0), VInt(1), VBool(TRUE), VString(<<97>>), VTuple(<<>>),
     VTuple(<<VInt(1)>>)}
UnknownCalls == {LibCall("binary", o, v) : o \in BinaryOps, v \in OtherOperands}

LibInit ==
    /\ \/ input \in FitsCalls
       \/ input \in LessCalls
       \/ input \in EqCalls
       \/ input \in TypeEqCalls
       \/ input \in UnknownCalls
    /\ phase = "source"
    /\ result = ""
    /\ prog = NoProg
    /\ vm = VM_new
    /\ tc = [block |-> 0, errors |-> <<>>]
    /\ compiled = NotCompiled
    /\ step = NoStep
    /\ calls = <<>>

Fits ==
    /\ phase = "source"
    /\ input.fn = "fits"
    /\ result' = fits(input.a, IF input.b = "self" THEN input.a ELSE TUnknown)
    /\ phase' = "done"
    /\ UNCHANGED <<input, prog, vm, tc, compiled, step, calls>>

Less ==
    /\ phase = "source"
    /\ input.fn = "less"
    /\ result' = [i \in 1..3 |-> [j \in 1..3 |-> less(input.a[i], input.a[j])]]
    /\ phase' = "done"
    /\ UNCHANGED <<input, prog, vm, tc, compiled, step, calls>>

Eq ==
    /\ phase = "source"
    /\ input.fn = "eq"
    /\ result' = eq(input.a, input.a)
    /\ phase' = "done"
    /\ UNCHANGED <<input, prog, vm, tc, compiled, step, calls>>

TypeEqual ==
    /\ phase = "source"
    /\ input.fn = "type_eq"
    /\ result' = TypeEq(input.a, input.b)
    /\ phase' = "done"
    /\ UNCHANGED <<input, prog, vm, tc, compiled, step, calls>>

BinaryUnknown ==
    /\ phase = "source"
    /\ input.fn = "binary"
    /\ result' = <<binary_op(input.a, Unknown, input.b),
                   binary_op(input.a, input.b, Unknown)>>
    /\ phase' = "done"
    /\ UNCHANGED <<input, prog, vm, tc, compiled, step, calls>>

LibNext == Fits \/ Less \/ Eq \/ TypeEqual \/ BinaryUnknown

LibSpec == LibInit /\ [][LibNext]_vars

\* C14: a type fits itself, whatever it is built from, and every type takes
\* an Unknown.
FitsReflexive ==
    (phase = "done" /\ input.fn = "fits") => result = TRUE

\* The lexicographic order of two tuples of equal length: the first component
\* in which they differ decides.
RECURSIVE Lexicographic(_, _)
Lexicographic(s, t) ==
    IF s = <<>> THEN FALSE
    ELSE IF Head(s) # Head(t) THEN less(Head(s), Head(t)) = VBool(TRUE)
    ELSE Lexicographic(Tail(s), Tail(t))

\* C15: on Ints, finite Floats, Bools and Strings less is a strict total
\* order, and on two tuples of equal length it is the lexicographic order, so
\* that less(t, t) is false.
LessIsStrictOrder ==
    (phase = "done" /\ input.fn = "less") =>
        /\ \A i, j \in 1..3 : result[i][j].k = "Bool"
        /\ \A i \in 1..3 : ~result[i][i].v
        /\ \A i, j \in 1..3 : result[i][j].v => ~result[j][i].v
        /\ \A i, j, k \in 1..3 : (result[i][j].v /\ result[j][k].v) => result[i][k].v
        /\ \A i, j \in 1..3 :
                input.a[i] # input.a[j] => (result[i][j].v \/ result[j][i].v)
        /\ \A i, j \in 1..3 :
                input.a[i].k = "Tuple" =>
                    result[i][j].v = Lexicographic(input.a[i].v, input.a[j].v)

\* C16: eq of a value and itself is Bool(true) for every scalar and for every
\* tuple and list built from scalars, empty and nested ones too; never Nil or
\* Bool(false).
EqReflexive ==
    (phase = "done" /\ input.fn = "eq") => result = VBool(TRUE)
EqNestedSeen ==
    /\ phase = "done"
    /\ input.fn = "eq"
    /\ input.a.k = "Tuple"
    /\ Len(input.a.v) = 2
    /\ input.a.v[2] = VList(<<VFloat(1), VFloat(1)>>)
    /\ result = VBool(TRUE)

\* The cells the up-value table holds.
TableCells(v) == {v.upvalues[s] : s \in DOMAIN v.upvalues}
\* The last step closed the cell c.
Closed(c) == c <= Len(step.pre.cells) /\ ~is_closed(step.pre.cells[c]) /\ is_closed(vm.cells[c])

\* C17: closing a closed up-value again with the value it holds leaves it as
\* it is; and the VM closes no cell twice: the table, through which every close
\* goes, holds open cells only, and a closed cell stays closed and out of the
\* table, its value changing by UpValue::set alone.
ClosedOnce ==
    /\ [](\A c \in 1..Len(vm.cells) :
            /\ c \in TableCells(vm) => ~is_closed(vm.cells[c])
            /\ is_closed(vm.cells[c]) => close(vm.cells[c], vm.cells[c].value) = vm.cells[c])
    /\ [][\A c \in 1..Len(vm.cells) :
            is_closed(vm.cells[c]) =>
                /\ c <= Len(vm'.cells)
                /\ is_closed(vm'.cells[c])
                /\ c \notin TableCells(vm')
                /\ vm'.cells[c].value # vm.cells[c].value => step'.op = "AssignUpvalue"]_vars
ClosedOnceSeen ==
    /\ step.mode = "run"
    /\ \E c, d \in 1..Len(vm.cells) :
            c # d /\ Closed(c) /\ is_closed(step.pre.cells[d])

(***************************************************************************)
(* A source file compiled twice, each time by a fresh Compiler in a        *)
(* process of its own: input is the file and the RandomState keys of the   *)
(* two processes, compiled what the first compilation returned, result     *)
(* what the second returned; phase counts them: "source", "once", "twice". *)
(***************************************************************************)
Seeds == {0, 1}
TwiceInit ==
    /\ input \in {[file |-> i, seeds |-> <<s1, s2>>] :
                    i \in {f \in Inputs : f.kind = "file"}, s1 \in Seeds, s2 \in Seeds}
    /\ phase = "source"
    /\ result = NotCompiled
    /\ compiled = NotCompiled
    /\ prog = NoProg
    /\ vm = VM_new
    /\ tc = [block |-> 0, errors |-> <<>>]
    /\ step = NoStep
    /\ calls = <<>>

CompileOnce ==
    /\ phase = "source"
    /\ \E r \in {compile(Tokens(input.file))} : compiled' = r
    /\ phase' = "once"
    /\ UNCHANGED <<input, prog, vm, result, tc, step, calls>>

CompileTwice ==
    /\ phase = "once"
    /\ \E r \in {compile(Tokens(input.file))} : result' = r
    /\ phase' = "twice"
    /\ UNCHANGED <<input, prog, vm, tc, compiled, step, calls>>

TwiceNext == CompileOnce \/ CompileTwice

TwiceSpec == TwiceInit /\ [][TwiceNext]_vars

BoundariesHere ==
    {i \in 1..Len(compiled.marks) :
        /\ compiled.marks[i].block = block_of(vm, prog).name
        /\ compiled.marks[i].ip = frame(vm).ip}

\* The VM follows the ops as the compiler laid them out: it checks a block in
\* which no check has failed, or it runs a checked program.
OnCompiledPath ==
    /\ input.kind = "file"
    /\ Len(vm.frames) > 0
    /\ \/ phase = "typecheck" /\ \A i \in 1..Len(tc.errors) : tc.errors[i].block # tc.block
       \/ phase = "running"

\* C19: at every statement boundary of a compiled block the stack height above
\* the frame's stack_offset is the number of variables of the compiler's frame
\* at that boundary, and every ReadLocal or AssignLocal addresses a slot below
\* the top of the stack.
StatementsAreStackNeutral ==
    OnCompiledPath =>
        /\ \A i \in BoundariesHere :
              Len(vm.stack) - frame(vm).stack_offset = compiled.marks[i].n
        /\ step.op \in {"ReadLocal", "AssignLocal"} /\ step.res = "Ok" =>
              frame(step.pre).stack_offset + step.arg < Len(step.pre.stack)

(***************************************************************************)
(* Speculative parses.                                                     *)
(***************************************************************************)
\* C20: when an alternative of parse_branch! has failed, the cursor and the
\* block's op length are those of the snapshot and the error list is the list
\* of the snapshot: the errors recorded before the speculative parse, none of
\* them dropped and none of the alternative's own added.
ParseBranchRestores ==
    \A i \in 1..Len(compiled.branches) :
        /\ compiled.branches[i].curr = compiled.branches[i].token_length
        /\ compiled.branches[i].ops = compiled.branches[i].block_length
        /\ Len(compiled.branches[i].errors) = compiled.branches[i].num_errors
        /\ compiled.branches[i].errors =
              Take(compiled.branches[i].thrown, compiled.branches[i].num_errors)

(***************************************************************************)
(* Up-values at scope exit, at Return and in the table.                    *)
(***************************************************************************)
\* C21: when run executes PopUpvalue the table holds an open cell for the top
\* slot of the stack; the op closes it with the top value and pops, and the
\* branch of drop_upvalue without an entry is not taken.
PopUpvalueFindsCell ==
    (step.mode = "run" /\ step.op = "PopUpvalue") =>
        /\ Len(step.pre.stack) >= 1
        /\ (Len(step.pre.stack) - 1) \in DOMAIN step.pre.upvalues
        /\ step.res = "Continue"
        /\ vm.stack = Front(step.pre.stack)
        /\ vm.cells[step.pre.upvalues[Len(step.pre.stack) - 1]] =
              close(step.pre.cells[step.pre.upvalues[Len(step.pre.stack) - 1]],
                    top(step.pre))

\* C22: a Return run with more than one frame closes every open up-value whose
\* slot is above the returning frame's stack_offset with the value the slot
\* holds and removes it from the table, leaves the up-values at or below
\* stack_offset open in the table, and truncates the stack to stack_offset + 1;
\* a Return run with one frame ends the run with Done.
ReturnClosesAbove ==
    /\ (step.mode = "run" /\ step.op = "Return" /\ Len(step.pre.frames) > 1) =>
          /\ step.res = "Continue"
          /\ Len(vm.stack) = frame(step.pre).stack_offset + 1
          /\ \A s \in DOMAIN step.pre.upvalues :
                IF s > frame(step.pre).stack_offset
                THEN /\ s \notin DOMAIN vm.upvalues
                     /\ s < Len(step.pre.stack)
                     /\ vm.cells[step.pre.upvalues[s]] =
                            close(step.pre.cells[step.pre.upvalues[s]],
                                  At(step.pre.stack, s))
                ELSE /\ s \in DOMAIN vm.upvalues
                     /\ vm.upvalues[s] = step.pre.upvalues[s]
                     /\ ~is_closed(vm.cells[vm.upvalues[s]])
          /\ DOMAIN vm.upvalues \subseteq DOMAIN step.pre.upvalues
    /\ (step.mode = "run" /\ step.op = "Return" /\ Len(step.pre.frames) = 1) =>
          step.res = "Done" /\ phase = "done"

\* A Return from a frame with an open up-value above its stack_offset and one
\* at or below it.
ReturnClosedSeen ==
    /\ Ran("Return")
    /\ Len(step.pre.frames) > 1
    /\ \E s \in DOMAIN step.pre.upvalues : s > frame(step.pre).stack_offset
    /\ \E s \in DOMAIN step.pre.upvalues : s <= frame(step.pre).stack_offset

FromCompiler == input.name \notin {"Assert", "JmpNPop"}

\* C24: while a program the compiler produced runs, the bottom frame has
\* stack_offset 0, the stack_offsets increase strictly from frame to frame,
\* each is below the stack height and the slot at it holds a Function whose
\* block is the frame's block; ReadUpvalue and AssignUpvalue find a function
\* in that slot.
FramesOnFunctions ==
    (FromCompiler /\ vm.runtime /\ phase \in {"running", "yielded"}) =>
        /\ \A i \in 1..Len(vm.frames) :
              /\ vm.frames[i].stack_offset < Len(vm.stack)
              /\ i = 1 => vm.frames[i].stack_offset = 0
              /\ i > 1 => vm.frames[i - 1].stack_offset < vm.frames[i].stack_offset
              /\ At(vm.stack, vm.frames[i].stack_offset).k = "Function"
              /\ At(vm.stack, vm.frames[i].stack_offset).v.block = vm.frames[i].block
        /\ (step.mode = "run" /\ step.op \in {"ReadUpvalue", "AssignUpvalue"}) =>
              step.res = "Continue"

\* Three frames deep, the innermost reading through its up-value vector.
FramesSeen ==
    /\ vm.runtime
    /\ phase = "running"
    /\ Len(vm.frames) >= 3
    /\ Ran("ReadUpvalue")

(***************************************************************************)
(* Leaving a loop.                                                         *)
(***************************************************************************)
RECURSIVE OpStarts(_, _)
\* The addresses at which the ops of a block start, decoding from address i.
OpStarts(ops, i) ==
    IF i >= Len(ops) \/ At(ops, i).t # "op" THEN {}
    ELSE {i} \cup OpStarts(ops, i + 1 + 8 * OperandCount(At(ops, i).v))

\* The block of that name in the compiled program.
BlockNamed(name) ==
    prog.blocks[CHOOSE b \in 1..Len(prog.blocks) : prog.blocks[b].name = name]

\* The statements of the history that lie inside the statement i.
Inside(i) ==
    {j \in 1..Len(compiled.marks) :
        /\ j # i
        /\ compiled.marks[j].block = compiled.marks[i].block
        /\ compiled.marks[i].at <= compiled.marks[j].at
        /\ compiled.marks[j].ip <= compiled.marks[i].ip}

\* The innermost for statement around the statement i, and that loop's step
\* statement: the first statement compiled inside it.
LoopOf(i) ==
    CHOOSE f \in 1..Len(compiled.marks) :
        /\ compiled.marks[f].form = "For" /\ i \in Inside(f)
        /\ \A g \in 1..Len(compiled.marks) :
              (compiled.marks[g].form = "For" /\ i \in Inside(g)) =>
                  compiled.marks[f].at >= compiled.marks[g].at
StepOf(f) == CHOOSE k \in Inside(f) : \A j \in Inside(f) : k <= j

\* C25: every break and continue of a compiled for loop is a JmpNPop with two
\* operands in place; the first is the address of the loop's end (break) or of
\* its step statement (continue), the start of an op, and the second is the
\* number of variables the frame holds at the statement less the number it
\* holds in the loop outside the body.
LoopExitsAreJmpNPop ==
    phase = "compiled" =>
        \A i \in 1..Len(compiled.marks) :
            compiled.marks[i].form \in {"Break", "Continue"} =>
                /\ compiled.marks[i].ip = compiled.marks[i].at + 17
                /\ At(BlockNamed(compiled.marks[i].block).ops, compiled.marks[i].at).t
                      = "op"
                /\ At(BlockNamed(compiled.marks[i].block).ops, compiled.marks[i].at).v
                      = "JmpNPop"
                /\ \A k \in 1..16 :
                      At(BlockNamed(compiled.marks[i].block).ops,
                         compiled.marks[i].at + k).t = "byte"
                /\ from_be_bytes(SubSeq(BlockNamed(compiled.marks[i].block).ops,
                                        compiled.marks[i].at + 2,
                                        compiled.marks[i].at + 9))
                      = IF compiled.marks[i].form = "Continue"
                        THEN compiled.marks[StepOf(LoopOf(i))].at
                        ELSE compiled.marks[LoopOf(i)].ip
                                - (compiled.marks[StepOf(LoopOf(i))].n
                                      - compiled.marks[LoopOf(i)].n)
                /\ from_be_bytes(SubSeq(BlockNamed(compiled.marks[i].block).ops,
                                        compiled.marks[i].at + 2,
                                        compiled.marks[i].at + 9))
                      \in OpStarts(BlockNamed(compiled.marks[i].block).ops, 0)
                /\ from_be_bytes(SubSeq(BlockNamed(compiled.marks[i].block).ops,
                                        compiled.marks[i].at + 10,
                                        compiled.marks[i].at + 17))
                      = compiled.marks[i].n - compiled.marks[StepOf(LoopOf(i))].n

(***************************************************************************)
(* Index.                                                                  *)
(***************************************************************************)
\* C26: Index run on a tuple of length L and an Int i pushes element i when
\* 0 <= i < L and ends the run with IndexOutOfBounds for every other i.
IndexInBoundsOrError ==
    (/\ step.mode = "run" /\ step.op = "Index"
     /\ Len(step.pre.stack) >= 2
     /\ top(step.pre).k = "Int"
     /\ step.pre.stack[Len(step.pre.stack) - 1].k = "Tuple") =>
        IF 0 <= top(step.pre).v
              /\ top(step.pre).v < Len(step.pre.stack[Len(step.pre.stack) - 1].v)
        THEN /\ step.res = "Continue"
             /\ top(vm) = At(step.pre.stack[Len(step.pre.stack) - 1].v, top(step.pre).v)
             /\ Len(vm.stack) = Len(step.pre.stack) - 1
        ELSE step.res = "IndexOutOfBounds"

(***************************************************************************)
(* External functions.                                                     *)
(***************************************************************************)
\* C27: a Call on an external function invokes it with typecheck_mode = true
\* if the typechecker checks the Call and with typecheck_mode = false if run
\* executes it; when the function accepts the arguments the stack is cut to
\* the callee's slot and the value it returned is pushed.
ExternSeesItsMode ==
    (/\ step.mode \in {"check", "run"} /\ step.op = "Call"
     /\ Len(step.pre.stack) > step.arg
     /\ At(step.pre.stack, Len(step.pre.stack) - 1 - step.arg).k = "ExternFunction"
     /\ At(step.pre.stack, Len(step.pre.stack) - 1 - step.arg).v < Len(prog.functions)) =>
        /\ Len(vm.invoked) = Len(step.pre.invoked) + 1
        /\ Last(vm.invoked).typecheck = (step.mode = "check")
        /\ step.res \in {"Ok", "Continue"} =>
              /\ Len(vm.stack) = Len(step.pre.stack) - step.arg
              /\ step.mode = "run" =>
                    top(vm) = extern_function(
                        At(prog.functions,
                           At(step.pre.stack, Len(step.pre.stack) - 1 - step.arg).v),
                        Drop(step.pre.stack, Len(step.pre.stack) - step.arg),
                        FALSE).value

(***************************************************************************)
(* Instances.                                                              *)
(***************************************************************************)
\* The field vector of an instance.
FieldsOf(x) == IF x.v.ref = 0 THEN <<>> ELSE vm.heap[x.v.ref]

\* C28: every Instance on the stack, in typecheck mode and at runtime, has a
\* field vector as long as its blob's list of fields; and a Call on a Blob
\* leaves the new instance in the slot the callee held, with the arguments
\* gone.
InstancesHaveAllFields ==
    /\ \A i \in 1..Len(vm.stack) :
          vm.stack[i].k = "Instance" =>
              Len(FieldsOf(vm.stack[i])) = Len(prog.blobs[vm.stack[i].v.blob].fields)
    /\ (/\ step.mode \in {"check", "run"} /\ step.op = "Call"
        /\ step.res \in {"Ok", "Continue"}
        /\ Len(step.pre.stack) > step.arg
        /\ At(step.pre.stack, Len(step.pre.stack) - 1 - step.arg).k = "Blob") =>
          /\ Len(vm.stack) = Len(step.pre.stack) - step.arg
          /\ top(vm).k = "Instance"
          /\ top(vm).v.blob = At(step.pre.stack, Len(step.pre.stack) - 1 - step.arg).v

(***************************************************************************)
(* Panic mode.                                                             *)
(***************************************************************************)
\* C29: between the start of one statement and the start of the next at most
\* one error is recorded: the errors compile returns were each recorded after
\* a different number of statements had begun.
OneErrorPerStatement ==
    compiled.done =>
        /\ Len(compiled.windows) = Len(compiled.errors)
        /\ \A i, j \in 1..Len(compiled.windows) :
              i # j => compiled.windows[i] # compiled.windows[j]

(***************************************************************************)
(* Capturing a variable of an enclosing function.                          *)
(***************************************************************************)
\* The innermost frame that knows the name as a local or as an up-value, 0
\* when no frame does.
Holder(frames, name) ==
    LET hit == {k \in 1..Len(frames) : \/ find_local(frames[k], name).some
                                       \/ Frame_find_upvalue(frames[k], name).some}
    IN  IF hit = {} THEN 0 ELSE CHOOSE k \in hit : \A j \in hit : j <= k

\* Look-up e resolves, from the innermost frame, a local of an enclosing frame
\* that no frame in between knows yet.
Captures(e) ==
    /\ Holder(e.before, e.name) \in 1..(Len(e.before) - 1)
    /\ find_local(e.before[Holder(e.before, e.name)], e.name).some

\* Look-up e resolves a name the innermost frame already has as an up-value.
Repeats(e) ==
    /\ ~find_local(e.before[Len(e.before)], e.name).some
    /\ Frame_find_upvalue(e.before[Len(e.before)], e.name).some

CapturedFrom(e, k, local) ==
    /\ Len(e.after) = Len(e.before)
    /\ e.after[k].stack[local.slot + 1].captured
    /\ e.after[k].upvalues = e.before[k].upvalues
    /\ \A j \in 1..(k - 1) : e.after[j] = e.before[j]
    /\ \A j \in (k + 1)..Len(e.before) :
          /\ Len(e.after[j].upvalues) = Len(e.before[j].upvalues) + 1
          /\ SubSeq(e.after[j].upvalues, 1, Len(e.before[j].upvalues))
                = e.before[j].upvalues
          /\ e.after[j].stack = e.before[j].stack
          /\ Last(e.after[j].upvalues).name = e.name
          /\ Last(e.after[j].upvalues).slot = Len(e.before[j].upvalues)
          /\ IF j = k + 1
             THEN /\ Last(e.after[j].upvalues).outer_slot = local.slot
                  /\ ~Last(e.after[j].upvalues).outer_upvalue
             ELSE /\ Last(e.after[j].upvalues).outer_slot = Len(e.before[j - 1].upvalues)
                  /\ Last(e.after[j].upvalues).outer_upvalue

SameScope(e) ==
    \E i \in 1..Len(Last(e.before).stack) :
        /\ Last(e.before).stack[i].name = e.name
        /\ Last(e.before).stack[i].active
        /\ Last(e.before).stack[i].scope = Last(e.before).scope

\* C31: a declaration is refused with 'Multiple definitions' only when an
\* active variable of that name was declared in the same function frame at the
\* same scope depth.
MultipleDefinitionsSameScope ==
    \A i \in 1..Len(compiled.declared) :
        ~compiled.declared[i].ok => SameScope(compiled.declared[i])

\* Look-up e, made from a frame stack of the given depth, finds the local in
\* the given slot of the innermost frame.
ResolvesTo(e, name, depth, slot) ==
    /\ e.name = name
    /\ Len(e.before) = depth
    /\ find_local(Last(e.before), name).some
    /\ find_local(Last(e.before), name).var.slot = slot

\* C32: while the initializer of a declaration is compiled, no look-up made
\* outside the body of a function literal resolves to the variable being
\* declared.
InitializerNeverSeesItself ==
    \A i \in 1..Len(compiled.initialised) :
        LET d == compiled.initialised[i]
        IN  d.ok => \A j \in (d.from + 1)..d.to :
                        ~ResolvesTo(compiled.resolved[j], d.name, d.depth, d.slot)

(***************************************************************************)
(* Reads and writes through an up-value.                                   *)
(***************************************************************************)
\* The cell the up-value operand of the step names, in the state before it.
StepCell == At(Callee(step.pre).v.ups, step.arg)

\* C33: ReadUpvalue pushes stack[slot] for an open cell and the embedded value
\* for a closed one, and changes no cell and no other stack slot;
\* AssignUpvalue pops the value and writes it to stack[slot] alone for an open
\* cell, leaving every cell as it was, and to the embedded value alone for a
\* closed one, leaving every remaining stack slot as it was.
UpvalueTargets ==
    /\ Ran("ReadUpvalue") =>
          /\ vm.cells = step.pre.cells
          /\ popped(vm, 1).stack = step.pre.stack
          /\ top(vm) = IF is_closed(step.pre.cells[StepCell])
                       THEN step.pre.cells[StepCell].value
                       ELSE At(step.pre.stack, step.pre.cells[StepCell].slot)
    /\ Ran("AssignUpvalue") =>
          IF is_closed(step.pre.cells[StepCell])
          THEN /\ vm.stack = popped(step.pre, 1).stack
               /\ vm.cells = [step.pre.cells EXCEPT ![StepCell].value = top(step.pre)]
          ELSE /\ vm.cells = step.pre.cells
               /\ vm.stack = SetAt(popped(step.pre, 1).stack,
                                   step.pre.cells[StepCell].slot, top(step.pre))

\* A read through a closed cell whose embedded value is not what the stack
\* holds at slot 0.
ClosedReadSeen ==
    /\ Ran("ReadUpvalue")
    /\ is_closed(step.pre.cells[StepCell])
    /\ top(vm) = step.pre.cells[StepCell].value
    /\ top(vm) # At(step.pre.stack, 0)

(***************************************************************************)
(* Types: Define in typecheck mode, and equality.                          *)
(***************************************************************************)
\* C35: every type is equal to itself, and two tuple types are equal exactly
\* when they have the same length and equal elements at every position.
TypeEqIsStructural ==
    (phase = "done" /\ input.fn = "type_eq") =>
        /\ input.a = input.b => result = TRUE
        /\ (input.a.k = "Tuple" /\ input.b.k = "Tuple") =>
              result = (/\ Len(input.a.v) = Len(input.b.v)
                        /\ \A i \in 1..Len(input.a.v) :
                              TypeEq(input.a.v[i], input.b.v[i]))

\* Two types are built alike: the same constructor over components that are
\* built alike, in the same number.
RECURSIVE Structural(_, _)
Structural(a, b) ==
    /\ a.k = b.k
    /\ CASE a.k \in {"Tuple"} ->
                /\ Len(a.v) = Len(b.v)
                /\ \A i \in 1..Len(a.v) : Structural(a.v[i], b.v[i])
         [] a.k = "List" -> Structural(a.v, b.v)
         [] a.k = "Union" ->
                /\ \A x \in a.v : \E y \in b.v : Structural(x, y)
                /\ \A y \in b.v : \E x \in a.v : Structural(x, y)
         [] a.k = "Function" ->
                /\ Len(a.v.a) = Len(b.v.a)
                /\ \A i \in 1..Len(a.v.a) : Structural(a.v.a[i], b.v.a[i])
                /\ Structural(a.v.r, b.v.r)
         [] OTHER -> a.v = b.v

\* The declared type of the Define the step checked and the type of the value
\* on top of the stack.
DeclaredType == At(prog.constants, step.arg).v
TopType == TypeOf(top(step.pre))

\* C34: in typecheck mode Define(k) leaves the stack as it was and records a
\* TypeError exactly when constants[k] and the type of the top value are both
\* known and differ.
DefineChecksKnownTypes ==
    (step.mode = "check" /\ step.op = "Define" /\ step.res \in {"Ok", "TypeError"}) =>
        /\ vm.stack = step.pre.stack
        /\ step.res = "TypeError" <=>
              /\ DeclaredType.k # "Unknown"
              /\ TopType.k # "Unknown"
              /\ ~Structural(DeclaredType, TopType)

(***************************************************************************)
(* Operators on Unknown.                                                   *)
(***************************************************************************)
\* C36: add, mul, div, eq, less, and, or give Unknown when one of the operands
\* is Unknown, whatever the other one is.
UnknownOperandGivesUnknown ==
    (phase = "done" /\ input.fn = "binary") =>
        /\ result[1].k = "Unknown"
        /\ result[2].k = "Unknown"

(***************************************************************************)
(* Associativity.                                                          *)
(***************************************************************************)
\* The ops binary() emits for an operator token.
Emits(t) == [i \in 1..Len(binary_ops(Tok(t))) |-> Do(binary_ops(Tok(t))[i])]

\* C37: two binary operators of one precedence level associate to the left:
\* `1 o 2 p 3` emits 1, 2, the ops of o, 3, the ops of p.
LeftAssociative ==
    (input.name = "Assoc" /\ compiled.done) =>
        /\ compiled.ok
        /\ Emitted(prog.blocks[1].ops, prog.constants, 1)
              = <<Load(VInt(1)), Load(VInt(2))>> \o Emits(input.expr[1])
                    \o <<Load(VInt(3))>> \o Emits(input.expr[2]) \o StatementTail

(***************************************************************************)
(* VM::init on a VM that has been used.                                    *)
(***************************************************************************)
\* VM::init has just returned: on the VM the typecheck used, or on one that
\* has run.
JustInitialized ==
    \/ phase = "reinit"
    \/ phase = "running" /\ input.kind = "file" /\ step.mode = NoStep.mode

\* C38: after init the stack holds the main function alone, there is one frame
\* with stack_offset 0 and ip 0, and the up-value table is empty, as in a
\* new VM after init.
InitResets ==
    JustInitialized =>
        /\ vm.stack = VM_init(VM_new, prog).stack
        /\ vm.frames = <<[stack_offset |-> 0, block |-> 1, ip |-> 0]>>
        /\ DOMAIN vm.upvalues = {}
        /\ vm.runtime

(***************************************************************************)
(* Termination of the typecheck.                                           *)
(***************************************************************************)
\* C39: the typecheck of a block ends, loops and recursive functions included:
\* every op it checks starts inside the block's ops and, also when an error is
\* recorded, leaves the one frame on its block, with no frame pushed, and the
\* instruction pointer further on than it was, so that no jump is taken
\* backwards and the end of the ops is reached.
CheckAdvances ==
    (step.mode = "check" /\ step.res \notin {"Panic", "Misdecode"}) =>
        /\ frame(step.pre).ip < Len(block_of(step.pre, prog).ops)
        /\ Len(vm.frames) = 1
        /\ frame(vm).block = frame(step.pre).block
        /\ frame(vm).ip > frame(step.pre).ip
        /\ step.op \in {"Jmp", "JmpFalse", "JmpNPop"} =>
              frame(vm).ip = frame(step.pre).ip + 1 + 8 * OperandCount(step.op)
                                + (IF step.res = "Ok" THEN 0 ELSE 1)

\* The typecheck has gone past the backward Jmp of a loop.
LoopChecked ==
    /\ step.mode = "check"
    /\ step.op = "Jmp"
    /\ step.arg < frame(step.pre).ip
    /\ frame(vm).ip = frame(step.pre).ip + 9

(***************************************************************************)
(* Termination of the compiler                                             *)
(***************************************************************************)
\* The iteration t consumed nothing.
Stuck(t) == t.to = t.from
\* The iteration t went over a newline, or over the end of the file.
OverLine(t) ==
    \/ t.to > Len(Tokens(input))
    \/ \E k \in (t.from + 1)..t.to : Tokens(input)[k].t = "Newline"

====
